---- MODULE Spec2Model ----
(***************************************************************************)
(* Model of the diagnostic link of obd_diagnostic_app.py: the OBDConnection *)
(* object (socket, is_connected, running, vehicle_profile,                 *)
(* protocol_detected), its framer send_command, the session initializer    *)
(* connect_obd, disconnect_obd, read_dtc, clear_dtc, the polling thread    *)
(* run, and the OBDApp handlers that start these on threads.               *)
(*                                                                         *)
(* Text is a sequence of one-character strings, so that strip, replace,    *)
(* startswith and "in" are computed as Python computes them.               *)
(***************************************************************************)
EXTENDS Integers, Sequences, FiniteSets, TLC

\* ------------------------------------------------------------------ bounds
\* number of socket objects connect_obd may create in one run
MaxSockets == 2
\* number of data chunks one exchange may receive before the model stops
\* delivering data to it
MaxChunks == 2
\* number of injected transport faults (send/recv error, recv timeout)
MaxFaults == 1
\* tokens joined into one response handed to parse_pid_response on its own
MaxTokens == 3

\* --------------------------------------------------------------- constants
None == "None"
\* self.socket = None: no socket object; socket objects are numbered from 1
NoSocket == 0
\* self.protocol_detected = None
NoProtocol == <<None>>

CMD_RESET         == <<"A","T","Z">>
CMD_VERSION       == <<"A","T","I">>
CMD_ECHO_OFF      == <<"A","T","E","0">>
CMD_HEADERS_OFF   == <<"A","T","H","0">>
CMD_LINEFEEDS_OFF == <<"A","T","L","0">>
CMD_AUTO_PROTOCOL == <<"A","T","S","P","0">>
CMD_KWP2000       == <<"A","T","S","P","4">>
CMD_ISO9141       == <<"A","T","S","P","3">>
CMD_CAN_11BIT_500K == <<"A","T","S","P","6">>
CMD_KWP1281       == <<"A","T","S","P","5">>
CMD_ATDP          == <<"A","T","D","P">>
CMD_READ_DTC      == <<"0","3">>
CMD_CLEAR_DTC     == <<"0","4">>

PID_SPEED           == <<"0","1","0","D">>
PID_RPM             == <<"0","1","0","C">>
PID_ENGINE_TEMP     == <<"0","1","0","5">>
PID_FUEL_LEVEL      == <<"0","1","2","F">>
PID_INTAKE_PRESSURE == <<"0","1","0","B">>
PID_FIAT_TURBO_PRESSURE     == <<"0","1","5","F">>
PID_FIAT_CLUTCH_STATUS      == <<"0","1","6","0">>
PID_TOYOTA_FUEL_CONSUMPTION == <<"0","1","5","E">>
PID_TOYOTA_HYBRID_BATTERY   == <<"0","1","A","2">>
PID_VAG_BOOST_PRESSURE      == <<"0","1","A","6">>
PID_VAG_OIL_TEMP            == <<"0","1","5","C">>

Fiat   == "Fiat 500 Series 1"
Toyota == "Toyota C-HR/Corolla"
VAG    == "Volkswagen Group"

VEHICLE_PROFILES ==
  [p \in {Fiat, Toyota, VAG} |->
    CASE p = Fiat ->
           [protocol_cmd |-> CMD_KWP2000, fallback_cmd |-> CMD_ISO9141,
            specific_pids |-> << <<<<"T","u","r","b","o"," ","P","r","e","s","s","u","r","e">>,
                                   PID_FIAT_TURBO_PRESSURE>>,
                                 <<<<"C","l","u","t","c","h"," ","S","t","a","t","u","s">>,
                                   PID_FIAT_CLUTCH_STATUS>> >>]
      [] p = Toyota ->
           [protocol_cmd |-> CMD_CAN_11BIT_500K, fallback_cmd |-> CMD_AUTO_PROTOCOL,
            specific_pids |-> << <<<<"F","u","e","l"," ","C","o","n","s","u","m","p","t","i","o","n">>,
                                   PID_TOYOTA_FUEL_CONSUMPTION>>,
                                 <<<<"H","y","b","r","i","d"," ","B","a","t","t","e","r","y">>,
                                   PID_TOYOTA_HYBRID_BATTERY>> >>]
      [] p = VAG ->
           [protocol_cmd |-> CMD_CAN_11BIT_500K, fallback_cmd |-> CMD_KWP1281,
            specific_pids |-> << <<<<"B","o","o","s","t"," ","P","r","e","s","s","u","r","e">>,
                                   PID_VAG_BOOST_PRESSURE>>,
                                 <<<<"O","i","l"," ","T","e","m","p","e","r","a","t","u","r","e">>,
                                   PID_VAG_OIL_TEMP>> >>]]

\* the entries of the vehicle combo box: "Auto Detect" (index 0) gives None
ProfileChoices == {None} \cup DOMAIN VEHICLE_PROFILES

\* the five standard requests of one polling cycle, in the order of run()
StandardPids ==
  <<PID_SPEED, PID_RPM, PID_ENGINE_TEMP, PID_FUEL_LEVEL, PID_INTAKE_PRESSURE>>

\* the keys run() stores their values under, in the same order
StandardKeys ==
  <<<<"s","p","e","e","d">>,
    <<"r","p","m">>,
    <<"e","n","g","i","n","e","_","t","e","m","p">>,
    <<"f","u","e","l","_","l","e","v","e","l">>,
    <<"i","n","t","a","k","e","_","p","r","e","s","s","u","r","e">>>>

\* -------------------------------------------------------------------- text
\* str.strip() with no argument: the ASCII whitespace it removes
Whitespace == {" ", "\t", "\n", "\r", "\f"}

RECURSIVE LStrip(_)
LStrip(s) ==
  IF s # <<>> /\ Head(s) \in Whitespace THEN LStrip(Tail(s)) ELSE s

RECURSIVE RStrip(_)
RStrip(s) ==
  IF s # <<>> /\ s[Len(s)] \in Whitespace
  THEN RStrip(SubSeq(s, 1, Len(s) - 1)) ELSE s

Strip(s) == RStrip(LStrip(s))

\* s.startswith(p)
StartsWith(s, p) == Len(p) <= Len(s) /\ SubSeq(s, 1, Len(p)) = p

\* p in s  (substring test)
Contains(s, p) ==
  \E i \in 0..(Len(s) - Len(p)) : SubSeq(s, i + 1, i + Len(p)) = p

\* bytes.decode('utf-8', errors='replace'): an ASCII byte is its character,
\* a byte that is no valid UTF-8 becomes U+FFFD
InvalidByte == "\\xff"
ReplacementChar == "U+FFFD"
Decode(bytes) ==
  [i \in 1..Len(bytes) |->
     IF bytes[i] = InvalidByte THEN ReplacementChar ELSE bytes[i]]

\* .replace("\r", "").replace("\n", " ").replace(">", "")
NotCrOrPrompt(c) == c # "\r" /\ c # ">"
ReplaceAll(s) ==
  LET t == [i \in 1..Len(s) |-> IF s[i] = "\n" THEN " " ELSE s[i]]
  IN  SelectSeq(t, NotCrOrPrompt)

\* lines 256-263 of send_command: decode, clean, remove the echo.
\* command is the text passed by the caller; the code compares with
\* (command + "\r").strip()
Normalize(bytes, command) ==
  LET decoded == Strip(ReplaceAll(Strip(Decode(bytes))))
      echo    == Strip(command \o <<"\r">>)
  IN  IF StartsWith(decoded, echo)
      THEN Strip(SubSeq(decoded, Len(echo) + 1, Len(decoded)))
      ELSE decoded

OK == <<"O","K">>
NotConnectedText == <<"N","o","t"," ","c","o","n","n","e","c","t","e","d">>
ErrorPrefix == <<"E","r","r","o","r",":"," ">>
\* str(e) of the exceptions a socket operation raises in the model
ExcTimedOut == <<"t","i","m","e","d"," ","o","u","t">>
ExcReset    == <<"r","e","s","e","t">>
ExcBadFd    == <<"b","a","d"," ","f","d">>
ExcNoSocket == <<"N","o","n","e","T","y","p","e">>
ExcRefused  == <<"r","e","f","u","s","e","d">>
ExcNotConn  == <<"n","o","t"," ","c","o","n","n">>
ConnectionErrorPrefix ==
  <<"C","o","n","n","e","c","t","i","o","n"," ","e","r","r","o","r",":"," ">>

\* ------------------------------------------------------ parse_pid_response
UpperLetters ==
  <<"A","B","C","D","E","F","G","H","I","J","K","L","M",
    "N","O","P","Q","R","S","T","U","V","W","X","Y","Z">>
LowerLetters ==
  <<"a","b","c","d","e","f","g","h","i","j","k","l","m",
    "n","o","p","q","r","s","t","u","v","w","x","y","z">>

\* str.lower()
LowerMap ==
  [c \in {UpperLetters[i] : i \in 1..26} |->
     LowerLetters[CHOOSE i \in 1..26 : UpperLetters[i] = c]]
LowerChar(c) == IF c \in DOMAIN LowerMap THEN LowerMap[c] ELSE c
Lower(s) == [i \in 1..Len(s) |-> LowerChar(s[i])]

\* .replace(" ", "")
NotSpace(c) == c # " "
RemoveSpaces(s) == SelectSeq(s, NotSpace)

\* the digits int(s, 16) accepts, in either case
HexDigits ==
  <<"0","1","2","3","4","5","6","7","8","9","a","b","c","d","e","f">>
HexMap ==
  [c \in {HexDigits[i] : i \in 1..16} |->
     (CHOOSE i \in 1..16 : HexDigits[i] = c) - 1]
IsHexDigit(c) == LowerChar(c) \in DOMAIN HexMap
HexVal(c) == HexMap[LowerChar(c)]
AllHex(s) == \A i \in 1..Len(s) : IsHexDigit(s[i])

RECURSIVE DigitsValue(_)
DigitsValue(s) ==
  IF s = <<>> THEN 0
  ELSE 16 * DigitsValue(SubSeq(s, 1, Len(s) - 1)) + HexVal(s[Len(s)])

\* int(s, 16) on the two-character slices the decoder takes: surrounding
\* whitespace is dropped, one sign is accepted, the rest must be hex digits
\* (a slice of two characters has no room for a 0x prefix or an underscore
\* between digits); ok is FALSE where int raises ValueError
ValueError == [ok |-> FALSE, v |-> 0]
PyInt16(s) ==
  LET t      == Strip(s)
      signed == t # <<>> /\ t[1] \in {"+", "-"}
      digits == IF signed THEN Tail(t) ELSE t
  IN  IF digits = <<>> \/ ~AllHex(digits) THEN ValueError
      ELSE [ok |-> TRUE,
            v  |-> IF signed /\ t[1] = "-" THEN 0 - DigitsValue(digits)
                   ELSE DigitsValue(digits)]

\* what parse_pid_response returns: None, or a number.  A number is kept
\* as the exact quotient num / den of the integers the formula divides
\* (the float Python computes is the double nearest to that quotient).
NoneValue == [some |-> FALSE, num |-> 0, den |-> 1]
Value(n, d) == [some |-> TRUE, num |-> n, den |-> d]

NO_DATA == <<"N","O"," ","D","A","T","A">>
ERROR   == <<"E","R","R","O","R">>

\* line 270, with only the NO DATA marker and the empty response tested
IsNegativeIgnoresError(response) ==
  Contains(response, NO_DATA) \/ response = <<>>

\* line 270
IsNegative(response) ==
  Contains(response, NO_DATA) \/ Contains(response, ERROR) \/ response = <<>>

\* line 277, with the test left out
AnswersPidAlways(r, pid) == TRUE

\* line 277: pid[2:4].lower() in response.lower()
AnswersPid(r, pid) == Contains(Lower(r), Lower(SubSeq(pid, 3, 4)))

\* response[-2:]
Last2(r) == SubSeq(r, Len(r) - 1, Len(r))

\* the branches of one data byte, with floor division in place of /
SingleByteFloorDiv(r, mul, add, den) ==
  IF Len(r) >= 4
  THEN LET a == PyInt16(Last2(r))
       IN  IF a.ok THEN Value((mul * a.v + add) \div den, 1) ELSE NoneValue
  ELSE NoneValue

\* the branches of one data byte (lines 280-286, 299-369): the value is
\* (mul * A + add) / den
SingleByte(r, mul, add, den) ==
  IF Len(r) >= 4
  THEN LET a == PyInt16(Last2(r))
       IN  IF a.ok THEN Value(mul * a.v + add, den) ELSE NoneValue
  ELSE NoneValue

\* lines 289-296, with the high byte left out
TwoBytesLowOnly(r) ==
  IF Len(r) >= 6
  THEN LET a == PyInt16(SubSeq(r, Len(r) - 3, Len(r) - 2))
           b == PyInt16(Last2(r))
       IN  IF a.ok /\ b.ok THEN Value(b.v, 4) ELSE NoneValue
  ELSE NoneValue

\* lines 289-296: (256 * A + B) / 4
TwoBytes(r) ==
  IF Len(r) >= 6
  THEN LET a == PyInt16(SubSeq(r, Len(r) - 3, Len(r) - 2))
           b == PyInt16(Last2(r))
       IN  IF a.ok /\ b.ok THEN Value(256 * a.v + b.v, 4) ELSE NoneValue
  ELSE NoneValue

\* lines 279-369: the dispatch on the identifier
DecodePayload(r, pid) ==
  CASE pid = PID_SPEED           -> SingleByte(r, 1, 0, 1)
    [] pid = PID_RPM             -> TwoBytes(r)
    [] pid = PID_ENGINE_TEMP     -> SingleByte(r, 1, 0 - 40, 1)
    [] pid = PID_FUEL_LEVEL      -> SingleByte(r, 100, 0, 255)
    [] pid = PID_INTAKE_PRESSURE -> SingleByte(r, 1, 0, 1)
    [] pid \in {PID_FIAT_TURBO_PRESSURE, PID_VAG_BOOST_PRESSURE}
                                 -> SingleByte(r, 2, 0, 1)
    [] pid = PID_FIAT_CLUTCH_STATUS      -> SingleByte(r, 1, 0, 1)
    [] pid = PID_TOYOTA_FUEL_CONSUMPTION -> SingleByte(r, 1, 0, 10)
    [] pid = PID_TOYOTA_HYBRID_BATTERY   -> SingleByte(r, 100, 0, 255)
    [] pid = PID_VAG_OIL_TEMP            -> SingleByte(r, 1, 0 - 40, 1)
    [] OTHER                             -> NoneValue

\* lines 268-371
parse_pid_response(response, pid) ==
  IF IsNegative(response) THEN NoneValue
  ELSE LET r == RemoveSpaces(response)
       IN  IF AnswersPid(r, pid) THEN DecodePayload(r, pid) ELSE NoneValue

\* ------------------------------------------------------------------- state
\* ----------------------------------------------------------------- read_dtc
\* DTC_CODES, lines 64-107: the (code, description) items of the dictionary
DTC_CODES == {
  <<<<"P","0","1","0","0">>,
    "Mass or Volume Air Flow Circuit Malfunction">>,
  <<<<"P","0","1","0","1">>,
    "Mass or Volume Air Flow Circuit Range/Performance Problem">>,
  <<<<"P","0","1","0","2">>,
    "Mass or Volume Air Flow Circuit Low Input">>,
  <<<<"P","0","1","0","3">>,
    "Mass or Volume Air Flow Circuit High Input">>,
  <<<<"P","0","1","0","4">>,
    "Mass or Volume Air Flow Circuit Intermittent">>,
  <<<<"P","0","1","0","5">>,
    "Manifold Absolute Pressure/Barometric Pressure Circuit Malfunction">>,
  <<<<"P","0","1","0","6">>,
    "Manifold Absolute Pressure/Barometric Pressure Circuit Range/Performance Problem">>,
  <<<<"P","0","1","0","7">>,
    "Manifold Absolute Pressure/Barometric Pressure Circuit Low Input">>,
  <<<<"P","0","1","0","8">>,
    "Manifold Absolute Pressure/Barometric Pressure Circuit High Input">>,
  <<<<"P","0","1","0","9">>,
    "Manifold Absolute Pressure/Barometric Pressure Circuit Intermittent">>,
  <<<<"P","0","1","1","0">>,
    "Intake Air Temperature Circuit Malfunction">>,
  <<<<"P","0","1","1","1">>,
    "Intake Air Temperature Circuit Range/Performance Problem">>,
  <<<<"P","0","1","1","2">>,
    "Intake Air Temperature Circuit Low Input">>,
  <<<<"P","0","1","1","3">>,
    "Intake Air Temperature Circuit High Input">>,
  <<<<"P","0","1","1","4">>,
    "Intake Air Temperature Circuit Intermittent">>,
  <<<<"P","0","1","1","5">>,
    "Engine Coolant Temperature Circuit Malfunction">>,
  <<<<"P","0","1","1","6">>,
    "Engine Coolant Temperature Circuit Range/Performance Problem">>,
  <<<<"P","0","1","1","7">>,
    "Engine Coolant Temperature Circuit Low Input">>,
  <<<<"P","0","1","1","8">>,
    "Engine Coolant Temperature Circuit High Input">>,
  <<<<"P","0","1","1","9">>,
    "Engine Coolant Temperature Circuit Intermittent">>,
  <<<<"P","0","1","2","0">>,
    "Throttle Position Sensor/Switch A Circuit Malfunction">>,
  <<<<"P","0","1","2","1">>,
    "Throttle Position Sensor/Switch A Circuit Range/Performance Problem">>,
  <<<<"P","0","1","2","2">>,
    "Throttle Position Sensor/Switch A Circuit Low Input">>,
  <<<<"P","0","1","2","3">>,
    "Throttle Position Sensor/Switch A Circuit High Input">>,
  <<<<"P","0","1","2","4">>,
    "Throttle Position Sensor/Switch A Circuit Intermittent">>,
  <<<<"P","0","1","2","5">>,
    "Insufficient Coolant Temperature for Closed Loop Fuel Control">>,
  <<<<"P","0","1","2","6">>,
    "Insufficient Coolant Temperature for Stable Operation">>,
  <<<<"P","0","1","2","8">>,
    "Coolant Thermostat (Coolant Temperature Below Thermostat Regulating Temperature)">>,
  <<<<"P","0","1","3","0">>,
    "O2 Sensor Circuit Malfunction (Bank 1 Sensor 1)">>,
  <<<<"P","0","1","3","1">>,
    "O2 Sensor Circuit Low Voltage (Bank 1 Sensor 1)">>,
  <<<<"P","0","1","3","2">>,
    "O2 Sensor Circuit High Voltage (Bank 1 Sensor 1)">>,
  <<<<"P","0","1","3","3">>,
    "O2 Sensor Circuit Slow Response (Bank 1 Sensor 1)">>,
  <<<<"P","0","1","3","4">>,
    "O2 Sensor Circuit No Activity Detected (Bank 1 Sensor 1)">>,
  <<<<"P","0","1","3","5">>,
    "O2 Sensor Heater Circuit Malfunction (Bank 1 Sensor 1)">>,
  <<<<"P","0","1","7","1">>,
    "System Too Lean (Bank 1)">>,
  <<<<"P","0","1","7","2">>,
    "System Too Rich (Bank 1)">>,
  <<<<"P","0","3","0","0">>,
    "Random/Multiple Cylinder Misfire Detected">>,
  <<<<"P","0","3","0","1">>,
    "Cylinder 1 Misfire Detected">>,
  <<<<"P","0","3","0","2">>,
    "Cylinder 2 Misfire Detected">>,
  <<<<"P","0","3","0","3">>,
    "Cylinder 3 Misfire Detected">>,
  <<<<"P","0","3","0","4">>,
    "Cylinder 4 Misfire Detected">>}

UnknownCode == "Unknown code"

\* DTC_CODES.get(full_code, "Unknown code"), line 407
DtcDescription(full_code) ==
  IF \E e \in DTC_CODES : e[1] = full_code
  THEN (CHOOSE e \in DTC_CODES : e[1] = full_code)[2]
  ELSE UnknownCode

\* lines 392-401: the letter chosen from the first character of the group,
\* the empty string when it is none of 0, 1, 2, 3
FirstChar(c) ==
  CASE c = "0" -> <<"P">>
    [] c = "1" -> <<"C">>
    [] c = "2" -> <<"B">>
    [] c = "3" -> <<"U">>
    [] OTHER   -> <<>>

\* lines 403-404: full_code = first_char + code_bytes[1:4]
FullCode(code_bytes) == FirstChar(code_bytes[1]) \o SubSeq(code_bytes, 2, 4)

ZeroGroup == <<"0","0","0","0">>

\* lines 385-409: the loop over response[i:i+4] from the index i (counted
\* from 0), the entries it appends in order
RECURSIVE DtcLoop(_, _)
DtcLoop(response, i) ==
  IF i < Len(response) - 3
  THEN LET code_bytes == SubSeq(response, i + 1, i + 4)
           full_code  == FullCode(code_bytes)
       IN  (IF code_bytes # ZeroGroup
            THEN << <<full_code, DtcDescription(full_code)>> >>
            ELSE <<>>)
           \o DtcLoop(response, i + 4)
  ELSE <<>>

\* lines 380-409: dtc_codes as read_dtc builds it from the response of the
\* framer
ParseDtc(response) ==
  IF ~Contains(response, NO_DATA) /\ ~Contains(response, ERROR)
     /\ response # <<>>
  THEN DtcLoop(RemoveSpaces(response), 0)
  ELSE <<>>

\* a clear_dtc that reports success unless the adapter answers ERROR
ClearResultUnlessError(response) ==
  IF ~Contains(response, ERROR) THEN "True" ELSE "False"

\* line 422: "OK" in response
ClearResult(response) == IF Contains(response, OK) THEN "True" ELSE "False"

VARIABLES
  socket,            \* self.socket: NoSocket or the index of a socket object
  socks,             \* the socket objects created so far, each
                     \* "created" | "connected" | "closed"
  is_connected,      \* self.is_connected
  running,           \* self.running
  vehicle_profile,   \* self.vehicle_profile
  protocol_detected, \* self.protocol_detected
  pc,                \* position of every thread
  sc,                \* the send_command frame of every thread: st is its
                     \* position, buf the bytes received, sock the socket
                     \* its command was written to, cause how it ended
  responses,         \* connect_obd: local list responses
  sent,              \* connect_obd: the commands it has written to the socket
  faulted,           \* a transport fault hit the latest connect_obd
  connRet,           \* what the latest connect_obd returned: "True", "False",
                     \* or None while it has not returned
  pidx,              \* run: index of the request of the cycle in progress
  specific_pids,     \* run: local specific_pids
  data,              \* run: local data, the (key, value) pairs in the order
                     \* of insertion
  reqs,              \* run: the commands passed to send_command so far in
                     \* the cycle in progress
  dec,               \* a call of parse_pid_response on its own: arguments
                     \* and returned value
  ui,                \* enabled state of the buttons
  sigq,              \* connected(bool, str) signals queued for the UI thread
  nfaults,           \* transport faults injected so far
  initOK,            \* some connect_obd has returned True
  dtc_codes,         \* read_dtc: the list it has emitted and returned, a
                     \* sequence of (code, description) pairs
  clrRet,            \* what clear_dtc has returned: "True", "False", or
                     \* None while no call has returned
  wire               \* the answers the adapter has written on the socket
                     \* of the session, oldest first, each with the command
                     \* it answers and the command of the send_command call
                     \* whose recv took it (empty while it is in flight)

vars == <<socket, socks, is_connected, running, vehicle_profile,
          protocol_detected, pc, sc, responses, sent, faulted,
          connRet, pidx, specific_pids, data, reqs, dec, ui, sigq, nfaults,
          initOK, dtc_codes, clrRet, wire>>

objVars  == <<is_connected, running, vehicle_profile, protocol_detected>>
connVars == <<responses, sent, faulted, connRet, initOK>>
pollVars == <<pidx, specific_pids, data, reqs>>
diagVars == <<dtc_codes, clrRet>>

\* conn: the thread of OBDApp.connect_thread; poll: the QThread running
\* run(); dtc, clr: the threads of on_read_dtc_clicked and
\* on_clear_dtc_clicked; ui: the GUI thread
Threads == {"conn", "poll", "dtc", "clr"}

NoCall == [st |-> "none", cmd |-> <<>>, buf |-> <<>>, n |-> 0, sock |-> 0,
           cause |-> None, result |-> <<>>]

Returned(cmd, buf, cause, result) ==
  [st |-> "ret", cmd |-> cmd, buf |-> buf, n |-> 0, sock |-> 0,
   cause |-> cause, result |-> result]

ErrorText(e) == ErrorPrefix \o e

\* no call of parse_pid_response on its own is under way
NoDecode == [st |-> "none", response |-> <<>>, pid |-> <<>>,
             value |-> NoneValue]

\* ------------------------------------------------------------ send_command
\* entry and lines 237-238: the frame a call of send_command(cmd) starts in
Invoke(cmd) ==
  IF socket = NoSocket
  THEN Returned(cmd, <<>>, "noSocket", NotConnectedText)
  ELSE [st |-> "send", cmd |-> cmd, buf |-> <<>>, n |-> 0, sock |-> 0,
        cause |-> None, result |-> <<>>]

\* what a socket operation does on the object self.socket names now:
\* "ok", or the text of the exception it raises
SocketUse ==
  IF socket = NoSocket THEN ExcNoSocket
  ELSE IF socks[socket] = "closed" THEN ExcBadFd
  ELSE IF socks[socket] = "created" THEN ExcNotConn
  ELSE <<"o","k">>

Usable == SocketUse = <<"o","k">>

\* lines 242-247: self.socket.send(command + "\r")
SendOk(t) ==
  /\ sc[t].st = "send"
  /\ Usable
  /\ sc' = [sc EXCEPT ![t].st = "recv", ![t].sock = socket]
  /\ UNCHANGED nfaults

\* the send raises because the socket is gone, closed or not connected
\* a send_command whose send on a socket that is gone raises to its caller
SendDeadRaises(t) ==
  /\ sc[t].st = "send"
  /\ ~Usable
  /\ sc' = [sc EXCEPT ![t].st = "raised"]
  /\ UNCHANGED nfaults

SendDead(t) ==
  /\ sc[t].st = "send"
  /\ ~Usable
  /\ sc' = [sc EXCEPT ![t] =
              Returned(sc[t].cmd, <<>>, "sendError", ErrorText(SocketUse))]
  /\ UNCHANGED nfaults

\* the send raises on a healthy socket (connection reset by the adapter)
SendFault(t) ==
  /\ sc[t].st = "send"
  /\ Usable
  /\ nfaults < MaxFaults
  /\ nfaults' = nfaults + 1
  /\ sc' = [sc EXCEPT ![t] =
              Returned(sc[t].cmd, <<>>, "sendError", ErrorText(ExcReset))]

HasPrompt(buf) == \E i \in 1..Len(buf) : buf[i] = ">"

\* lines 249-253, one iteration in which recv returns the chunk c; the loop
\* condition is re-evaluated at once, so a buffer holding the prompt ends
\* the read (lines 256-263)
RecvData(t, c) ==
  /\ sc[t].st = "recv"
  /\ Usable
  /\ sc[t].n < MaxChunks
  /\ c # <<>>
  /\ LET buf == sc[t].buf \o c
     IN  sc' = [sc EXCEPT ![t] =
                  IF HasPrompt(buf)
                  THEN Returned(sc[t].cmd, buf, "prompt",
                                Normalize(buf, sc[t].cmd))
                  ELSE [sc[t] EXCEPT !.buf = buf, !.n = sc[t].n + 1]]
  /\ UNCHANGED nfaults

\* line 251: recv returns b"" (the peer closed), the loop breaks
RecvEof(t) ==
  /\ sc[t].st = "recv"
  /\ Usable
  /\ sc' = [sc EXCEPT ![t] =
              Returned(sc[t].cmd, sc[t].buf, "eof",
                       Normalize(sc[t].buf, sc[t].cmd))]
  /\ UNCHANGED nfaults

\* line 249: the loop condition finds TIMEOUT seconds elapsed
RecvDeadline(t) ==
  /\ sc[t].st = "recv"
  /\ sc' = [sc EXCEPT ![t] =
              Returned(sc[t].cmd, sc[t].buf, "deadline",
                       Normalize(sc[t].buf, sc[t].cmd))]
  /\ UNCHANGED nfaults

\* line 250 with settimeout(TIMEOUT) of line 171: no byte arrives within
\* TIMEOUT, recv raises socket.timeout, line 266 returns the error text
RecvTimeout(t) ==
  /\ sc[t].st = "recv"
  /\ Usable
  /\ nfaults < MaxFaults
  /\ nfaults' = nfaults + 1
  /\ sc' = [sc EXCEPT ![t] =
              Returned(sc[t].cmd, sc[t].buf, "timeout",
                       ErrorText(ExcTimedOut))]

\* line 250: recv raises another OSError on a healthy socket
RecvFault(t) ==
  /\ sc[t].st = "recv"
  /\ Usable
  /\ nfaults < MaxFaults
  /\ nfaults' = nfaults + 1
  /\ sc' = [sc EXCEPT ![t] =
              Returned(sc[t].cmd, sc[t].buf, "recvError", ErrorText(ExcReset))]

\* line 250: recv raises because the socket is gone, closed or replaced by
\* one that is not connected
RecvDead(t) ==
  /\ sc[t].st = "recv"
  /\ ~Usable
  /\ sc' = [sc EXCEPT ![t] =
              Returned(sc[t].cmd, sc[t].buf, "recvError", ErrorText(SocketUse))]
  /\ UNCHANGED nfaults

\* the chunks the adapter may deliver in reply to cmd: an affirmative
\* reply, a non-affirmative reply, both with the prompt, and, until echo-off
\* has been received, the echo of the command without prompt
ReplyOk   == <<"O","K","\r","\r",">">>
ReplyErr  == <<"E","R","R","O","R","\r","\r",">">>
EchoOf(cmd) == cmd \o <<"\r">>
Chunks(cmd) ==
  {ReplyOk, ReplyErr}
  \cup (IF cmd \in {CMD_RESET, CMD_VERSION, CMD_ECHO_OFF} THEN {EchoOf(cmd)}
        ELSE {})

\* the variables no step of send_command changes
frameOnly ==
  <<socket, socks, objVars, pc, connVars, pollVars, ui, sigq, dec, diagVars, wire>>

\* the send of thread t, and what send and recv do on a socket that is
\* gone, closed or not connected
Transfer(t) ==
  /\ \/ SendOk(t)
     \/ SendDead(t)
     \/ RecvDead(t)
  /\ UNCHANGED frameOnly

\* a transport fault on the healthy socket during the exchange of thread t
Fault(t) ==
  /\ \/ SendFault(t)
     \/ RecvTimeout(t)
     \/ RecvFault(t)
  /\ UNCHANGED frameOnly

\* a read of thread t that delivers the chunk c
Deliver(t, c) == RecvData(t, c) /\ UNCHANGED frameOnly

\* a read of thread t that ends without prompt and without exception
SoftEnd(t) ==
  /\ \/ RecvEof(t)
     \/ RecvDeadline(t)
  /\ UNCHANGED frameOnly

\* ---------------------------------------------------- the adapter's answers
\* line 243 on a healthy socket, the adapter answering: the answer to the
\* command is in flight behind the answers no recv has taken yet
SendWire(t) ==
  /\ SendOk(t)
  /\ wire' = Append(wire, [cmd |-> sc[t].cmd, bytes |-> ReplyOk,
                           taker |-> <<>>])
  /\ UNCHANGED <<socket, socks, objVars, pc, connVars, pollVars, ui, sigq,
                 dec, diagVars>>

\* the number of answers some recv has taken
Taken == Cardinality({i \in 1..Len(wire) : wire[i].taker # <<>>})

RECURSIVE Arrived(_, _, _)
Arrived(w, from, to) ==
  IF from > to THEN <<>> ELSE w[from].bytes \o Arrived(w, from + 1, to)

\* lines 247-253: recv(1024) returns what has arrived on the socket, the k
\* oldest answers in flight, whichever command they answer
RecvWire(t, k) ==
  /\ k \in 1..(Len(wire) - Taken)
  /\ RecvData(t, Arrived(wire, Taken + 1, Taken + k))
  /\ wire' = [i \in 1..Len(wire) |->
               IF i \in (Taken + 1)..(Taken + k)
               THEN [wire[i] EXCEPT !.taker = sc[t].cmd]
               ELSE wire[i]]
  /\ UNCHANGED <<socket, socks, objVars, pc, connVars, pollVars, ui, sigq,
                 dec, diagVars>>

\* --------------------------------------------------------------- connect_obd
\* the exchange of thread t has returned to its caller
Ret(t) == sc[t].st = "ret"

\* the exchange put its command on the wire (the send of line 243 succeeded)
Wrote(f) == f.cause \notin {"noSocket", "sendError"}

\* the exchange ended in the except branch of line 265
TransportFault(f) == f.cause \in {"sendError", "recvError", "timeout"}

InitSteps == {"ATZ", "ATI", "ATE0", "ATH0", "ATL0", "PROTO", "FALLBACK",
              "AUTO", "ATDP"}

\* on_connect_clicked, lines 761-775: the profile is stored, the button is
\* disabled and the connect thread is started.  The model runs one connect
\* thread at a time: the click waits for the previous one to end.
ClickConnect(p) ==
  /\ pc["ui"] = "idle"
  /\ ui.connect_btn
  /\ pc["conn"] = "idle"
  /\ Len(socks) < MaxSockets
  /\ vehicle_profile' = p
  /\ ui' = [ui EXCEPT !.connect_btn = FALSE]
  /\ pc' = [pc EXCEPT !["conn"] = "create"]
  /\ connRet' = None
  /\ faulted' = FALSE
  /\ UNCHANGED <<socket, socks, is_connected, running, protocol_detected, sc,
                 responses, sent, pollVars, sigq, nfaults, initOK, dec, diagVars, wire>>

\* lines 170-171: a new socket object, with its timeout, is stored
ConnCreate ==
  /\ pc["conn"] = "create"
  /\ socks' = Append(socks, "created")
  /\ socket' = Len(socks) + 1
  /\ pc' = [pc EXCEPT !["conn"] = "connect"]
  /\ UNCHANGED <<objVars, sc, connVars, pollVars, ui, sigq, nfaults, dec, diagVars, wire>>

\* line 172 succeeds; lines 175-178: the reset command is passed to the framer
ConnConnectOk ==
  /\ pc["conn"] = "connect"
  /\ socket # NoSocket
  /\ socks' = [socks EXCEPT ![socket] = "connected"]
  /\ responses' = <<>>
  /\ sc' = [sc EXCEPT !["conn"] = Invoke(CMD_RESET)]
  /\ pc' = [pc EXCEPT !["conn"] = "ATZ"]
  /\ UNCHANGED <<socket, objVars, sent, faulted, connRet, initOK, pollVars,
                 ui, sigq, nfaults, dec, diagVars, wire>>

\* line 172 raises (refused, unreachable, timeout): control goes to line 216
ConnConnectFail ==
  /\ pc["conn"] = "connect"
  /\ faulted' = TRUE
  /\ pc' = [pc EXCEPT !["conn"] = "exc"]
  /\ UNCHANGED <<socket, socks, objVars, sc, responses, sent, connRet,
                 initOK, pollVars, ui, sigq, nfaults, dec, diagVars, wire>>

\* NextInitStep with the headers-off step left out
NextInitStepSkipsHeaders(step, resp) ==
  CASE step = "ATZ"  -> "ATI"
    [] step = "ATI"  -> "ATE0"
    [] step = "ATE0" -> "ATL0"
    [] step = "ATH0" -> "ATL0"
    [] step = "ATL0" -> IF vehicle_profile # None THEN "PROTO" ELSE "AUTO"
    [] step = "PROTO" -> IF ~Contains(resp, OK) THEN "FALLBACK" ELSE "ATDP"
    [] step = "FALLBACK" -> "ATDP"
    [] step = "AUTO" -> "ATDP"
    [] step = "ATDP" -> "mark"
    [] OTHER -> "exc"

\* NextInitStep retrying the fallback until it is acknowledged
NextInitStepRetriesFallback(step, resp) ==
  CASE step = "ATZ"  -> "ATI"
    [] step = "ATI"  -> "ATE0"
    [] step = "ATE0" -> "ATH0"
    [] step = "ATH0" -> "ATL0"
    [] step = "ATL0" -> IF vehicle_profile # None THEN "PROTO" ELSE "AUTO"
    [] step = "PROTO" -> IF ~Contains(resp, OK) THEN "FALLBACK" ELSE "ATDP"
    [] step = "FALLBACK" -> IF ~Contains(resp, OK) THEN "FALLBACK" ELSE "ATDP"
    [] step = "AUTO" -> "ATDP"
    [] step = "ATDP" -> "mark"
    [] OTHER -> "exc"

\* NextInitStep raising on a reset that is not acknowledged
NextInitStepAbortsOnError(step, resp) ==
  CASE step = "ATZ"  -> IF Contains(resp, <<"E","R","R","O","R">>)
                        THEN "exc" ELSE "ATI"
    [] step = "ATI"  -> "ATE0"
    [] step = "ATE0" -> "ATH0"
    [] step = "ATH0" -> "ATL0"
    [] step = "ATL0" -> IF vehicle_profile # None THEN "PROTO" ELSE "AUTO"
    [] step = "PROTO" -> IF ~Contains(resp, OK) THEN "FALLBACK" ELSE "ATDP"
    [] step = "FALLBACK" -> "ATDP"
    [] step = "AUTO" -> "ATDP"
    [] step = "ATDP" -> "mark"
    [] OTHER -> "exc"

\* the command that follows the step at pc, given the response just returned
NextInitStep(step, resp) ==
  CASE step = "ATZ"  -> "ATI"
    [] step = "ATI"  -> "ATE0"
    [] step = "ATE0" -> "ATH0"
    [] step = "ATH0" -> "ATL0"
    [] step = "ATL0" -> IF vehicle_profile # None THEN "PROTO" ELSE "AUTO"
    [] step = "PROTO" -> IF ~Contains(resp, OK) THEN "FALLBACK" ELSE "ATDP"
    [] step = "FALLBACK" -> "ATDP"
    [] step = "AUTO" -> "ATDP"
    [] step = "ATDP" -> "mark"
    [] OTHER -> "exc"

InitCommand(step) ==
  CASE step = "ATZ"  -> CMD_RESET
    [] step = "ATI"  -> CMD_VERSION
    [] step = "ATE0" -> CMD_ECHO_OFF
    [] step = "ATH0" -> CMD_HEADERS_OFF
    [] step = "ATL0" -> CMD_LINEFEEDS_OFF
    [] step = "PROTO" -> VEHICLE_PROFILES[vehicle_profile].protocol_cmd
    [] step = "FALLBACK" -> VEHICLE_PROFILES[vehicle_profile].fallback_cmd
    [] step = "AUTO" -> CMD_AUTO_PROTOCOL
    [] step = "ATDP" -> CMD_ATDP
    [] OTHER -> <<>>

\* LogAfter appending the response of every step
LogAfterEveryStep(step, log, resp) == Append(log, <<step, resp>>)

\* what connect_obd appends to responses after the step at pc
LogAfter(step, log, resp) ==
  CASE step = "ATZ"  -> Append(log, <<"Reset", resp>>)
    [] step = "ATI"  -> Append(log, <<"Version", resp>>)
    [] step = "ATDP" -> Append(log, <<"Protocol", resp>>)
    [] OTHER -> log

\* lines 178-210: a send_command of the sequence has returned; its response
\* (the local response) is used as the code uses it and the next command is
\* passed to the framer
ConnNext ==
  /\ pc["conn"] \in InitSteps
  /\ Ret("conn")
  /\ LET step == pc["conn"]
         f    == sc["conn"]
         nxt  == NextInitStep(step, f.result)
     IN  /\ responses' = LogAfter(step, responses, f.result)
         /\ protocol_detected' =
              IF step = "ATDP" THEN f.result ELSE protocol_detected
         /\ sent' = IF Wrote(f) THEN Append(sent, f.cmd) ELSE sent
         /\ faulted' = (faulted \/ TransportFault(f))
         /\ pc' = [pc EXCEPT !["conn"] = nxt]
         /\ sc' = [sc EXCEPT !["conn"] =
                     IF nxt \in InitSteps THEN Invoke(InitCommand(nxt))
                     ELSE NoCall]
  /\ UNCHANGED <<socket, socks, is_connected, running, vehicle_profile,
                 connRet, initOK, pollVars, ui, sigq, nfaults, dec, diagVars, wire>>

\* line 212
ConnMark ==
  /\ pc["conn"] = "mark"
  /\ is_connected' = TRUE
  /\ pc' = [pc EXCEPT !["conn"] = "emit"]
  /\ UNCHANGED <<socket, socks, running, vehicle_profile, protocol_detected,
                 sc, connVars, pollVars, ui, sigq, nfaults, dec, diagVars, wire>>

\* lines 213-214: connected(True, log) is emitted and True is returned
ConnEmit ==
  /\ pc["conn"] = "emit"
  /\ sigq' = Append(sigq, [ok |-> TRUE, msg |-> responses])
  /\ connRet' = "True"
  /\ initOK' = TRUE
  /\ pc' = [pc EXCEPT !["conn"] = "start"]
  /\ UNCHANGED <<socket, socks, objVars, sc, responses, sent, faulted,
                 pollVars, ui, nfaults, dec, diagVars, wire>>

\* connect_thread, lines 780-782: after a success the polling thread is
\* started; QThread.start() does nothing when the thread is running
ConnStart ==
  /\ pc["conn"] = "start"
  /\ pc' = [pc EXCEPT !["conn"] = "idle",
                      !["poll"] = IF pc["poll"] = "idle" THEN "run" ELSE @]
  /\ responses' = <<>>
  /\ sent' = <<>>
  /\ UNCHANGED <<socket, socks, objVars, sc, faulted, connRet, initOK,
                 pollVars, ui, sigq, nfaults, dec, diagVars, wire>>

\* line 217
ConnExc ==
  /\ pc["conn"] = "exc"
  /\ is_connected' = FALSE
  /\ pc' = [pc EXCEPT !["conn"] = "excEmit"]
  /\ UNCHANGED <<socket, socks, running, vehicle_profile, protocol_detected,
                 sc, connVars, pollVars, ui, sigq, nfaults, dec, diagVars, wire>>

\* line 218
ConnExcEmit ==
  /\ pc["conn"] = "excEmit"
  /\ sigq' = Append(sigq, [ok |-> FALSE,
                           msg |-> ConnectionErrorPrefix \o ExcRefused])
  /\ pc' = [pc EXCEPT !["conn"] = "excClose"]
  /\ UNCHANGED <<socket, socks, objVars, sc, connVars, pollVars, ui, nfaults, dec, diagVars, wire>>

\* lines 219-220
ConnExcClose ==
  /\ pc["conn"] = "excClose"
  /\ socks' = IF socket # NoSocket THEN [socks EXCEPT ![socket] = "closed"]
              ELSE socks
  /\ pc' = [pc EXCEPT !["conn"] =
              IF socket # NoSocket THEN "excNone" ELSE "excRet"]
  /\ UNCHANGED <<socket, objVars, sc, connVars, pollVars, ui, sigq, nfaults, dec, diagVars, wire>>

\* line 221
ConnExcNone ==
  /\ pc["conn"] = "excNone"
  /\ socket' = NoSocket
  /\ pc' = [pc EXCEPT !["conn"] = "excRet"]
  /\ UNCHANGED <<socks, objVars, sc, connVars, pollVars, ui, sigq, nfaults, dec, diagVars, wire>>

\* ConnExcRet with connect_thread starting the polling thread all the same
ConnExcRetStartsPolling ==
  /\ pc["conn"] = "excRet"
  /\ connRet' = "False"
  /\ pc' = [pc EXCEPT !["conn"] = "idle",
                      !["poll"] = IF pc["poll"] = "idle" THEN "run" ELSE @]
  /\ responses' = <<>>
  /\ sent' = <<>>
  /\ UNCHANGED <<socket, socks, objVars, sc, faulted, initOK, pollVars, ui,
                 sigq, nfaults, dec, diagVars, wire>>

\* line 222 and connect_thread line 780: False is returned, the thread ends
ConnExcRet ==
  /\ pc["conn"] = "excRet"
  /\ connRet' = "False"
  /\ pc' = [pc EXCEPT !["conn"] = "idle"]
  /\ responses' = <<>>
  /\ sent' = <<>>
  /\ UNCHANGED <<socket, socks, objVars, sc, faulted, initOK, pollVars, ui,
                 sigq, nfaults, dec, diagVars, wire>>

\* ------------------------------------------------------------ disconnect_obd
\* on_disconnect_clicked line 790 and line 226
ClickDisconnect ==
  /\ pc["ui"] = "idle"
  /\ ui.disconnect_btn
  /\ running' = FALSE
  /\ pc' = [pc EXCEPT !["ui"] = "close"]
  /\ UNCHANGED <<socket, socks, is_connected, vehicle_profile,
                 protocol_detected, sc, connVars, pollVars, ui, sigq, nfaults, dec, diagVars, wire>>

\* lines 227-231
DiscClose ==
  /\ pc["ui"] = "close"
  /\ socks' = IF socket # NoSocket THEN [socks EXCEPT ![socket] = "closed"]
              ELSE socks
  /\ pc' = [pc EXCEPT !["ui"] = IF socket # NoSocket THEN "none" ELSE "flag"]
  /\ UNCHANGED <<socket, objVars, sc, connVars, pollVars, ui, sigq, nfaults, dec, diagVars, wire>>

\* line 232
DiscNone ==
  /\ pc["ui"] = "none"
  /\ socket' = NoSocket
  /\ pc' = [pc EXCEPT !["ui"] = "flag"]
  /\ UNCHANGED <<socks, objVars, sc, connVars, pollVars, ui, sigq, nfaults, dec, diagVars, wire>>

\* line 233, then on_disconnect_clicked lines 793-797
DiscFlag ==
  /\ pc["ui"] = "flag"
  /\ is_connected' = FALSE
  /\ ui' = [connect_btn |-> TRUE, disconnect_btn |-> FALSE, dtc_btn |-> FALSE]
  /\ pc' = [pc EXCEPT !["ui"] = "idle"]
  /\ UNCHANGED <<socket, socks, running, vehicle_profile, protocol_detected,
                 sc, connVars, pollVars, sigq, nfaults, dec, diagVars, wire>>

\* on_connection_status_changed, lines 866-886, run by the GUI thread for
\* the oldest queued connected signal
HandleConnected ==
  /\ pc["ui"] = "idle"
  /\ sigq # <<>>
  /\ ui' = IF Head(sigq).ok
           THEN [connect_btn |-> FALSE, disconnect_btn |-> TRUE,
                 dtc_btn |-> TRUE]
           ELSE [connect_btn |-> TRUE, disconnect_btn |-> FALSE,
                 dtc_btn |-> FALSE]
  /\ sigq' = Tail(sigq)
  /\ UNCHANGED <<socket, socks, objVars, pc, sc, connVars, pollVars, nfaults, dec, diagVars, wire>>

\* ------------------------------------------------------ read_dtc, clear_dtc
\* on_read_dtc_clicked (804-807) and on_clear_dtc_clicked (809-830) start
\* the thread t; the model runs one of these threads at a time
ClickDtc(t) ==
  /\ t \in {"dtc", "clr"}
  /\ pc["ui"] = "idle"
  /\ ui.dtc_btn
  /\ pc["dtc"] = "idle"
  /\ pc["clr"] = "idle"
  /\ pc' = [pc EXCEPT ![t] = "check"]
  /\ UNCHANGED <<socket, socks, objVars, sc, connVars, pollVars, ui, sigq,
                 nfaults, dec, diagVars, wire>>

\* lines 375-376 and 418-419: the guard of read_dtc and clear_dtc; when it
\* fails read_dtc returns [] and clear_dtc returns False
DtcCheck(t) ==
  /\ t \in {"dtc", "clr"}
  /\ pc[t] = "check"
  /\ IF ~is_connected \/ socket = NoSocket
     THEN /\ pc' = [pc EXCEPT ![t] = "done"]
          /\ dtc_codes' = <<>>
          /\ clrRet' = IF t = "clr" THEN "False" ELSE clrRet
     ELSE /\ pc' = [pc EXCEPT ![t] = "call"]
          /\ UNCHANGED diagVars
  /\ UNCHANGED <<socket, socks, objVars, sc, connVars, pollVars, ui, sigq,
                 nfaults, dec, wire>>

\* lines 378 and 421: the command is passed to the framer
DtcCall(t) ==
  /\ t \in {"dtc", "clr"}
  /\ pc[t] = "call"
  /\ sc' = [sc EXCEPT ![t] =
              Invoke(IF t = "dtc" THEN CMD_READ_DTC ELSE CMD_CLEAR_DTC)]
  /\ pc' = [pc EXCEPT ![t] = "wait"]
  /\ UNCHANGED <<socket, socks, objVars, connVars, pollVars, ui, sigq,
                 nfaults, dec, diagVars, wire>>

\* lines 379-414: read_dtc builds dtc_codes from the response, emits and
\* returns it; line 422: clear_dtc returns whether the response holds "OK".
\* The frame of the exchange stays until the thread ends.
DtcDone(t) ==
  /\ t \in {"dtc", "clr"}
  /\ pc[t] = "wait"
  /\ Ret(t)
  /\ dtc_codes' = IF t = "dtc" THEN ParseDtc(sc[t].result) ELSE dtc_codes
  /\ clrRet' = IF t = "clr" THEN ClearResult(sc[t].result) ELSE clrRet
  /\ pc' = [pc EXCEPT ![t] = "done"]
  /\ UNCHANGED <<socket, socks, objVars, sc, connVars, pollVars, ui, sigq,
                 nfaults, dec, wire>>

\* DtcDone and the end of the thread in one step, the returned value not
\* kept: lines 379-414 and 422, then 807 and 826
DtcFinish(t) ==
  /\ t \in {"dtc", "clr"}
  /\ pc[t] = "wait"
  /\ Ret(t)
  /\ sc' = [sc EXCEPT ![t] = NoCall]
  /\ pc' = [pc EXCEPT ![t] = "idle"]
  /\ UNCHANGED <<socket, socks, objVars, connVars, pollVars, ui, sigq,
                 nfaults, dec, diagVars, wire>>

\* the thread of on_read_dtc_clicked or on_clear_dtc_clicked ends (807, 826)
DtcExit(t) ==
  /\ t \in {"dtc", "clr"}
  /\ pc[t] = "done"
  /\ sc' = [sc EXCEPT ![t] = NoCall]
  /\ dtc_codes' = <<>>
  /\ clrRet' = None
  /\ pc' = [pc EXCEPT ![t] = "idle"]
  /\ UNCHANGED <<socket, socks, objVars, connVars, pollVars, ui, sigq,
                 nfaults, dec, wire>>

\* ---------------------------------------------------------------------- run
\* line 426
PollRun ==
  /\ pc["poll"] = "run"
  /\ running' = TRUE
  /\ pc' = [pc EXCEPT !["poll"] = "while"]
  /\ UNCHANGED <<socket, socks, is_connected, vehicle_profile,
                 protocol_detected, sc, connVars, pollVars, ui, sigq, nfaults, dec, diagVars, wire>>

\* a loop that tests neither running nor is_connected
PollWhileIgnoresStop ==
  /\ pc["poll"] = "while"
  /\ pc' = [pc EXCEPT !["poll"] = "cycle"]
  /\ UNCHANGED <<socket, socks, objVars, sc, connVars, pollVars, ui, sigq,
                 nfaults, dec, diagVars, wire>>

\* line 428: the loop condition
PollWhile ==
  /\ pc["poll"] = "while"
  /\ pc' = [pc EXCEPT !["poll"] =
              IF running /\ is_connected THEN "cycle" ELSE "end"]
  /\ UNCHANGED <<socket, socks, objVars, sc, connVars, pollVars, ui, sigq,
                 nfaults, dec, diagVars, wire>>

\* data[key] = value writing the value under every key
DictSetClobbers(d, key, value) ==
  Append([i \in 1..Len(d) |-> <<d[i][1], value>>], <<key, value>>)

\* data[key] = value on the dict data: a key already present keeps its
\* place and takes the new value, a new key goes last
DictSet(d, key, value) ==
  IF \E i \in 1..Len(d) : d[i][1] = key
  THEN [i \in 1..Len(d) |-> IF d[i][1] = key THEN <<key, value>> ELSE d[i]]
  ELSE Append(d, <<key, value>>)

\* a run that stores every profile value under the key of the speed
DataKeyShadowsSpeed(name) == <<"s","p","e","e","d">>

\* line 454: name.lower().replace(" ", "_")
DataKey(name) ==
  [i \in 1..Len(name) |->
     IF LowerChar(name[i]) = " " THEN "_" ELSE LowerChar(name[i])]

\* lines 430-433: a cycle begins, the first request is passed to the framer
PollFirst ==
  /\ pc["poll"] = "cycle"
  /\ pidx' = 1
  /\ data' = <<>>
  /\ reqs' = <<StandardPids[1]>>
  /\ sc' = [sc EXCEPT !["poll"] = Invoke(StandardPids[1])]
  /\ pc' = [pc EXCEPT !["poll"] = "std"]
  /\ UNCHANGED <<socket, socks, objVars, connVars, specific_pids, ui, sigq,
                 nfaults, dec, diagVars, wire>>

\* lines 434-446: a standard request has returned and its response is
\* decoded into data; the next one is passed to the framer, or line 449 is
\* reached
PollNext ==
  /\ pc["poll"] = "std"
  /\ Ret("poll")
  /\ data' = DictSet(data, StandardKeys[pidx],
                     parse_pid_response(sc["poll"].result, StandardPids[pidx]))
  /\ IF pidx < Len(StandardPids)
     THEN /\ pidx' = pidx + 1
          /\ reqs' = Append(reqs, StandardPids[pidx + 1])
          /\ sc' = [sc EXCEPT !["poll"] = Invoke(StandardPids[pidx + 1])]
          /\ pc' = pc
     ELSE /\ pidx' = 0
          /\ reqs' = reqs
          /\ sc' = [sc EXCEPT !["poll"] = NoCall]
          /\ pc' = [pc EXCEPT !["poll"] = "prof"]
  /\ UNCHANGED <<socket, socks, objVars, connVars, specific_pids, ui, sigq,
                 nfaults, dec, diagVars, wire>>

\* line 449 with the test left out: the profile requests are never made
PollProfEmitsAlways ==
  /\ pc["poll"] = "prof"
  /\ pc' = [pc EXCEPT !["poll"] = "emit"]
  /\ UNCHANGED <<socket, socks, objVars, sc, connVars, pollVars, ui, sigq,
                 nfaults, dec, diagVars, wire>>

\* line 449
PollProf ==
  /\ pc["poll"] = "prof"
  /\ pc' = [pc EXCEPT !["poll"] =
              IF vehicle_profile # None THEN "lookup" ELSE "emit"]
  /\ UNCHANGED <<socket, socks, objVars, sc, connVars, pollVars, ui, sigq,
                 nfaults, dec, diagVars, wire>>

\* lines 450-453: the profile is read again; VEHICLE_PROFILES[None] raises
\* KeyError, which the handler of line 462 catches
PollLookup ==
  /\ pc["poll"] = "lookup"
  /\ IF vehicle_profile = None
     THEN /\ pc' = [pc EXCEPT !["poll"] = "except"]
          /\ UNCHANGED <<sc, pollVars>>
     ELSE /\ specific_pids' = VEHICLE_PROFILES[vehicle_profile].specific_pids
          /\ pidx' = 1
          /\ reqs' = Append(reqs,
               VEHICLE_PROFILES[vehicle_profile].specific_pids[1][2])
          /\ sc' = [sc EXCEPT !["poll"] =
               Invoke(VEHICLE_PROFILES[vehicle_profile].specific_pids[1][2])]
          /\ pc' = [pc EXCEPT !["poll"] = "spec"]
          /\ UNCHANGED data
  /\ UNCHANGED <<socket, socks, objVars, connVars, ui, sigq, nfaults, dec, diagVars, wire>>

\* lines 452-454: a profile request has returned and its response is
\* decoded into data
PollSpecNext ==
  /\ pc["poll"] = "spec"
  /\ Ret("poll")
  /\ data' = DictSet(data, DataKey(specific_pids[pidx][1]),
                     parse_pid_response(sc["poll"].result,
                                        specific_pids[pidx][2]))
  /\ IF pidx < Len(specific_pids)
     THEN /\ pidx' = pidx + 1
          /\ reqs' = Append(reqs, specific_pids[pidx + 1][2])
          /\ sc' = [sc EXCEPT !["poll"] = Invoke(specific_pids[pidx + 1][2])]
          /\ pc' = pc
          /\ UNCHANGED specific_pids
     ELSE /\ pidx' = 0
          /\ reqs' = reqs
          /\ specific_pids' = <<>>
          /\ sc' = [sc EXCEPT !["poll"] = NoCall]
          /\ pc' = [pc EXCEPT !["poll"] = "emit"]
  /\ UNCHANGED <<socket, socks, objVars, connVars, ui, sigq, nfaults, dec, diagVars, wire>>

\* line 457: data_received is emitted with data
PollEmit ==
  /\ pc["poll"] = "emit"
  /\ pc' = [pc EXCEPT !["poll"] = "sleep"]
  /\ UNCHANGED <<socket, socks, objVars, sc, connVars, pollVars, ui, sigq,
                 nfaults, dec, diagVars, wire>>

\* line 460: the pacing sleep of 0.5 s
PollSleep ==
  /\ pc["poll"] = "sleep"
  /\ pc' = [pc EXCEPT !["poll"] = "while"]
  /\ UNCHANGED <<socket, socks, objVars, sc, connVars, pollVars, ui, sigq,
                 nfaults, dec, diagVars, wire>>

\* lines 462-465
PollExcept ==
  /\ pc["poll"] = "except"
  /\ pc' = [pc EXCEPT !["poll"] = IF ~is_connected THEN "end" ELSE "backoff"]
  /\ UNCHANGED <<socket, socks, objVars, sc, connVars, pollVars, ui, sigq,
                 nfaults, dec, diagVars, wire>>

\* line 466: the retry wait of 1 s
PollBackoff ==
  /\ pc["poll"] = "backoff"
  /\ pc' = [pc EXCEPT !["poll"] = "while"]
  /\ UNCHANGED <<socket, socks, objVars, sc, connVars, pollVars, ui, sigq,
                 nfaults, dec, diagVars, wire>>

\* line 468: run returns, the thread ends
PollEnd ==
  /\ pc["poll"] = "end"
  /\ running' = FALSE
  /\ data' = <<>>
  /\ reqs' = <<>>
  /\ pc' = [pc EXCEPT !["poll"] = "idle"]
  /\ UNCHANGED <<socket, socks, is_connected, vehicle_profile,
                 protocol_detected, sc, connVars, pidx, specific_pids, ui,
                 sigq, nfaults, dec, diagVars, wire>>

\* ------------------------------------------------------------ specification
\* the state after OBDApp.__init__: lines 157-165 and the buttons of init_ui
Init ==
  /\ socket = NoSocket
  /\ socks = <<>>
  /\ is_connected = FALSE
  /\ running = FALSE
  /\ vehicle_profile = None
  /\ protocol_detected = NoProtocol
  /\ pc = [t \in Threads \cup {"ui"} |-> "idle"]
  /\ sc = [t \in Threads |-> NoCall]
  /\ responses = <<>>
  /\ sent = <<>>
  /\ faulted = FALSE
  /\ connRet = None
  /\ pidx = 0
  /\ specific_pids = <<>>
  /\ data = <<>>
  /\ reqs = <<>>
  /\ dec = NoDecode
  /\ ui = [connect_btn |-> TRUE, disconnect_btn |-> FALSE, dtc_btn |-> FALSE]
  /\ sigq = <<>>
  /\ nfaults = 0
  /\ initOK = FALSE
  /\ dtc_codes = <<>>
  /\ clrRet = None
  /\ wire = <<>>

\* the actions of the connect thread
ConnStep ==
  \/ ConnCreate
  \/ ConnConnectOk
  \/ ConnConnectFail
  \/ ConnNext
  \/ ConnMark
  \/ ConnEmit
  \/ ConnStart
  \/ ConnExc
  \/ ConnExcEmit
  \/ ConnExcClose
  \/ ConnExcNone
  \/ ConnExcRet

\* the actions of the GUI thread inside on_disconnect_clicked
DiscStep ==
  \/ DiscClose
  \/ DiscNone
  \/ DiscFlag

\* the actions of the read_dtc and clear_dtc threads
DtcStep ==
  \E t \in {"dtc", "clr"} :
     \/ ClickDtc(t)
     \/ DtcCheck(t)
     \/ DtcCall(t)
     \/ DtcDone(t)
     \/ DtcExit(t)

\* the same with the value a call returns dropped at once
DtcStepBrief ==
  \E t \in {"dtc", "clr"} :
     \/ ClickDtc(t)
     \/ DtcCheck(t)
     \/ DtcCall(t)
     \/ DtcFinish(t)
     \/ DtcExit(t)

\* the actions of the polling thread
PollStep ==
  \/ PollRun
  \/ PollWhile
  \/ PollFirst
  \/ PollNext
  \/ PollProf
  \/ PollLookup
  \/ PollSpecNext
  \/ PollEmit
  \/ PollSleep
  \/ PollExcept
  \/ PollBackoff
  \/ PollEnd

\* The whole program: every thread, connect and disconnect in any order the
\* buttons allow.  The adapter answers every command it receives with an
\* affirmative reply and the prompt; the transport may fail under the
\* polling, read_dtc and clear_dtc exchanges.
Next ==
  \/ \E p \in {None, Fiat} : ClickConnect(p)
  \/ ConnStep
  \/ ClickDisconnect
  \/ DiscStep
  \/ HandleConnected
  \/ DtcStepBrief
  \/ PollStep
  \/ \E t \in Threads : Transfer(t)
  \/ \E t \in Threads \ {"conn"} : Fault(t)
  \/ \E t \in Threads : Deliver(t, ReplyOk)

Spec == Init /\ [][Next]_vars

\* The program without read_dtc and clear_dtc: sessions and the polling
\* thread.
NextPoll ==
  \/ \E p \in {None, Fiat} : ClickConnect(p)
  \/ ConnStep
  \/ ClickDisconnect
  \/ DiscStep
  \/ HandleConnected
  \/ PollStep
  \/ \E t \in {"conn", "poll"} : Transfer(t)
  \/ Fault("poll")
  \/ \E t \in {"conn", "poll"} : Deliver(t, ReplyOk)

SpecPoll == Init /\ [][NextPoll]_vars

\* ------------------------------------------- sessions under fair scheduling
\* every step the polling thread takes of itself without a profile: the
\* loop of run, and of the exchanges of its requests the send, the error on
\* a socket that is gone, and the end of the read at the deadline of line
\* 249 when nothing has arrived
PollThread ==
  \/ PollRun
  \/ PollWhile
  \/ PollFirst
  \/ PollNext
  \/ PollProf
  \/ PollEmit
  \/ PollSleep
  \/ PollEnd
  \/ Transfer("poll")
  \/ SoftEnd("poll")

\* every step of the connect thread
ConnThread ==
  \/ ConnStep
  \/ Transfer("conn")
  \/ Deliver("conn", ReplyOk)

\* Sessions without a profile and without transport faults, connect and
\* disconnect in any order the buttons allow; the adapter acknowledges the
\* commands of the initialization, and answers a request of the polling
\* thread or stays silent.
NextStop ==
  \/ ClickConnect(None)
  \/ ConnThread
  \/ ClickDisconnect
  \/ DiscStep
  \/ HandleConnected
  \/ PollThread
  \/ Deliver("poll", ReplyOk)

\* The scheduling the polling thread has: it is not suspended for ever, and
\* a read of it ends at its deadline at the latest.  Nothing forces a click,
\* the GUI thread, the connect thread or an answer of the adapter.
SpecStop ==
  Init /\ [][NextStop]_vars /\ WF_vars(PollThread)

\* The same sessions when the connect thread is not suspended for ever
\* either and the adapter acknowledges each command of the initialization.
SpecResume ==
  Init /\ [][NextStop]_vars /\ WF_vars(PollThread) /\ WF_vars(ConnThread)

\* One session initialization alone, the GUI thread not yet run: every
\* profile, every reply of the adapter (affirmative, non-affirmative, echo,
\* silence, close) and the transport faults.
NextInit ==
  \/ \E p \in ProfileChoices : ClickConnect(p)
  \/ ConnStep
  \/ Transfer("conn")
  \/ Fault("conn")
  \/ \E c \in Chunks(sc["conn"].cmd) : Deliver("conn", c)
  \/ SoftEnd("conn")

SpecInit == Init /\ [][NextInit]_vars

\* ------------------------------------------- parse_pid_response on its own
\* the eleven identifiers of lines 30-47
AllPids ==
  {PID_SPEED, PID_RPM, PID_ENGINE_TEMP, PID_FUEL_LEVEL, PID_INTAKE_PRESSURE,
   PID_FIAT_TURBO_PRESSURE, PID_FIAT_CLUTCH_STATUS,
   PID_TOYOTA_FUEL_CONSUMPTION, PID_TOYOTA_HYBRID_BATTERY,
   PID_VAG_BOOST_PRESSURE, PID_VAG_OIL_TEMP}

\* the two hex digits of a byte, as the adapter prints them
HexUpper ==
  <<"0","1","2","3","4","5","6","7","8","9","A","B","C","D","E","F">>
Hex2(x) == <<HexUpper[(x \div 16) + 1], HexUpper[(x % 16) + 1]>>

Bytes == 0..255
\* the data bytes tried in pairs: 00, 1A, 3C, 7B, F8, FF
ByteSamples == {0, 26, 60, 123, 248, 255}

\* the tokens of ts with sep between them
RECURSIVE Join(_, _)
Join(ts, sep) ==
  IF ts = <<>> THEN <<>>
  ELSE IF Len(ts) = 1 THEN ts[1]
  ELSE ts[1] \o sep \o Join(Tail(ts), sep)

\* the first two bytes of the adapter's answer to pid: mode 41 and the
\* identifier byte
Header(pid) == <<"4","1">> \o SubSeq(pid, 3, 4)
\* the same of an identifier no request of the program uses
OtherHeader == <<"4","1","0","0">>

\* the answers to pid made of mode, identifier byte and one data byte of
\* any value or two sampled ones, with or without spaces, in either case
WellFormedResponses(pid) ==
  LET payloads == {<<Hex2(x)>> : x \in Bytes}
                  \cup {<<Hex2(a), Hex2(b)>> : a, b \in ByteSamples}
      upper == {Join(<<<<"4","1">>, SubSeq(pid, 3, 4)>> \o pl, sep) :
                  pl \in payloads, sep \in {<<>>, <<" ">>}}
  IN  upper \cup {Lower(r) : r \in upper}

\* the tokens other responses are joined from: the header of the answer,
\* a header of another identifier, a data byte, a byte that is no hex, a
\* signed digit, a lone digit, and the two negative markers
Tokens(pid) ==
  {Header(pid), OtherHeader, <<"3","C">>, <<"G","1">>, <<"+","5">>, <<"3">>,
   NO_DATA, ERROR}

TokenResponses(pid) ==
  {Join(ts, sep) :
     ts \in UNION {[1..k -> Tokens(pid)] : k \in 0..MaxTokens},
     sep \in {<<>>, <<" ">>}}

\* lines 268-371: the call returns
ParseCall ==
  /\ dec.st = "call"
  /\ dec' = [dec EXCEPT !.st = "ret",
                        !.value = parse_pid_response(dec.response, dec.pid)]
  /\ UNCHANGED <<socket, socks, objVars, pc, sc, connVars, pollVars, ui, sigq,
                 nfaults, diagVars, wire>>

\* a call of parse_pid_response(response, pid) on a fresh object
InitParse ==
  /\ socket = NoSocket
  /\ socks = <<>>
  /\ is_connected = FALSE
  /\ running = FALSE
  /\ vehicle_profile = None
  /\ protocol_detected = NoProtocol
  /\ pc = [t \in Threads \cup {"ui"} |-> "idle"]
  /\ sc = [t \in Threads |-> NoCall]
  /\ responses = <<>>
  /\ sent = <<>>
  /\ faulted = FALSE
  /\ connRet = None
  /\ pidx = 0
  /\ specific_pids = <<>>
  /\ data = <<>>
  /\ reqs = <<>>
  /\ ui = [connect_btn |-> TRUE, disconnect_btn |-> FALSE, dtc_btn |-> FALSE]
  /\ sigq = <<>>
  /\ nfaults = 0
  /\ initOK = FALSE
  /\ dtc_codes = <<>>
  /\ clrRet = None
  /\ wire = <<>>
  /\ \E pid \in AllPids :
       \E response \in WellFormedResponses(pid) \cup TokenResponses(pid) :
          dec = [st |-> "call", response |-> response, pid |-> pid,
                 value |-> NoneValue]

NextParse == ParseCall

SpecParse == InitParse /\ [][NextParse]_vars

\* ------------------------------------------------- one session that polls
\* the adapter's answers to the request cmd of a polling cycle: a value, the
\* negative marker, a payload that is no hex, the answer to another
\* identifier
ValidReply(cmd) ==
  <<"4","1"," ">> \o SubSeq(cmd, 3, 4)
    \o <<" ","1","A"," ","F","8","\r","\r",">">>
NoDataReply == NO_DATA \o <<"\r","\r",">">>
MalformedReply(cmd) ==
  <<"4","1"," ">> \o SubSeq(cmd, 3, 4) \o <<" ","G","1","\r","\r",">">>
WrongIdReply == <<"4","1"," ","0","0"," ","F","F","\r","\r",">">>
PidReplies(cmd) ==
  IF Len(cmd) = 4
  THEN {ValidReply(cmd), NoDataReply, MalformedReply(cmd), WrongIdReply}
  ELSE {}

\* One session with its polling thread, never disconnected: every profile,
\* the initialization acknowledged, and each request of a cycle answered by
\* any of PidReplies, by silence, or hit by a transport fault.
NextCycle ==
  \/ \E p \in ProfileChoices : ClickConnect(p)
  \/ ConnStep
  \/ PollRun
  \/ PollWhile
  \/ PollFirst
  \/ PollNext
  \/ PollProf
  \/ PollLookup
  \/ PollSpecNext
  \/ PollEmit
  \/ PollSleep
  \/ \E t \in {"conn", "poll"} : Transfer(t)
  \/ Fault("poll")
  \/ Deliver("conn", ReplyOk)
  \/ \E c \in PidReplies(sc["poll"].cmd) : Deliver("poll", c)
  \/ SoftEnd("poll")

SpecCycle == Init /\ [][NextCycle]_vars


\* --------------------------------------- sessions that read and clear codes
\* the groups the adapter's answer to the read-codes request is made of: a
\* code, the padding group, a group whose first digit is no category, and
\* a remainder of two characters
DtcGroups == {<<"0","1","3","3">>, <<"0","0","0","0">>, <<"4","1","2","3">>,
              <<"1","3">>}

\* the adapter's answers to the read-codes request: up to MaxTokens groups
\* separated by spaces, or the negative marker
DtcReplies ==
  {Join(ts, <<" ">>) \o <<"\r","\r",">">> :
     ts \in UNION {[1..k -> DtcGroups] : k \in 0..MaxTokens}}
  \cup {NoDataReply}

\* Sessions with read_dtc and clear_dtc and no polling: the initialization
\* acknowledged, the read-codes request answered by any of DtcReplies, the
\* clear request acknowledged or refused, either answered by silence or hit
\* by a transport fault, and disconnect at any moment.
NextDtc ==
  \/ ClickConnect(None)
  \/ ConnStep
  \/ ClickDisconnect
  \/ DiscStep
  \/ HandleConnected
  \/ DtcStep
  \/ \E t \in {"conn", "dtc", "clr"} : Transfer(t)
  \/ \E t \in {"dtc", "clr"} : Fault(t)
  \/ Deliver("conn", ReplyOk)
  \/ \E c \in DtcReplies : Deliver("dtc", c)
  \/ \E c \in {ReplyOk, ReplyErr} : Deliver("clr", c)
  \/ \E t \in {"dtc", "clr"} : SoftEnd(t)

SpecDtc == Init /\ [][NextDtc]_vars


\* ------------------------------------------------ one exchange of the framer
\* what the reads of one exchange are made of: the echo of the reset
\* command, an acknowledgement, the terminator, a line feed, the prompt, a
\* space and a byte that is no valid UTF-8
FrameTokens == {CMD_RESET, OK, <<"\r">>, <<"\n">>, <<">">>, <<" ">>,
                <<InvalidByte>>}

\* the chunks recv(1024) can return: up to MaxTokens tokens on the first
\* read, one token with or without the prompt behind it on a later one
FrameChunks(buf) ==
  IF buf = <<>>
  THEN {Join(ts, <<>>) :
          ts \in UNION {[1..k -> FrameTokens] : k \in 1..MaxTokens}}
  ELSE {t \o p : t \in FrameTokens, p \in {<<>>, <<">">>}}

\* The first exchange of a session on its own (send_command("ATZ")): the
\* reads return any of FrameChunks, or end by close or deadline.
NextFrame ==
  \/ ClickConnect(None)
  \/ ConnCreate
  \/ ConnConnectOk
  \/ Transfer("conn")
  \/ \E c \in FrameChunks(sc["conn"].buf) : Deliver("conn", c)
  \/ SoftEnd("conn")

SpecFrame == Init /\ [][NextFrame]_vars


\* ------------------------------------- one initialization, answers in flight
\* One session initialization in which every command written is answered
\* by the affirmative reply, the answers arrive in order at any later
\* moment, one or several to a read, and the transport may fail.
NextPair ==
  \/ ClickConnect(None)
  \/ ConnStep
  \/ SendWire("conn")
  \/ \E k \in 1..MaxChunks : RecvWire("conn", k)
  \/ Fault("conn")

SpecPair == Init /\ [][NextPair]_vars


\* ------------------------------------------------------------------ claims
\* thread t is between the send of its command and the end of its read
InFlight(t) == sc[t].st = "recv"

\* C1: at most one request/response exchange is in flight on the shared
\* socket at any time: no two threads are between send and end of read on
\* the same socket.
C1_OneExchangeInFlight ==
  \A t, u \in Threads :
     (t # u /\ InFlight(t) /\ InFlight(u)) => sc[t].sock # sc[u].sock

\* C2: when an exchange has ended with a socket-level error (send or recv
\* failure, recv timeout), the link is failed: is_connected is false and
\* the socket is closed and None.
C2_SocketErrorTearsDown ==
  \A t \in Threads :
     (Ret(t) /\ TransportFault(sc[t])) =>
        (~is_connected /\ socket = NoSocket)

\* C3: an exchange that ends because the read timeout elapsed before the
\* prompt returns the normalized form of the bytes accumulated so far,
\* never an error text.
C3_TimeoutReturnsAccumulated ==
  \A t \in Threads :
     (Ret(t) /\ sc[t].cause \in {"deadline", "timeout"}) =>
        sc[t].result = Normalize(sc[t].buf, sc[t].cmd)

\* the command trace of a complete initialization
ExpectedInit(profile, withFallback) ==
  <<CMD_RESET, CMD_VERSION, CMD_ECHO_OFF, CMD_HEADERS_OFF, CMD_LINEFEEDS_OFF>>
  \o (IF profile = None THEN <<CMD_AUTO_PROTOCOL>>
      ELSE <<VEHICLE_PROFILES[profile].protocol_cmd>>
           \o (IF withFallback THEN <<VEHICLE_PROFILES[profile].fallback_cmd>>
               ELSE <<>>))
  \o <<CMD_ATDP>>

IsPrefix(s, t) == Len(s) <= Len(t) /\ SubSeq(t, 1, Len(s)) = s

\* s is t with some elements left out
RECURSIVE IsSubseq(_, _)
IsSubseq(s, t) ==
  IF s = <<>> THEN TRUE
  ELSE IF t = <<>> THEN FALSE
  ELSE IF Head(s) = Head(t) THEN IsSubseq(Tail(s), Tail(t))
  ELSE IsSubseq(s, Tail(t))

\* connect_obd has passed the last command of the sequence
InitComplete == pc["conn"] \in {"mark", "emit", "start"}

\* C4: the commands session initialization writes to the socket are, in
\* order, ATZ ATI ATE0 ATH0 ATL0, one protocol-select command, optionally
\* the fallback, and ATDP last: nothing else and nothing twice (a command
\* whose send failed is missing), the whole trace when no transport fault
\* occurred, and the ATDP response is recorded as protocol_detected.
C4_InitCommandTrace ==
  /\ \E fb \in BOOLEAN : IsSubseq(sent, ExpectedInit(vehicle_profile, fb))
  /\ ~faulted => \E fb \in BOOLEAN : IsPrefix(sent, ExpectedInit(vehicle_profile, fb))
  /\ (InitComplete /\ ~faulted) =>
        \E fb \in BOOLEAN : sent = ExpectedInit(vehicle_profile, fb)
  /\ InitComplete =>
        /\ responses # <<>>
        /\ responses[Len(responses)] = <<"Protocol", protocol_detected>>

C4_Witness ==
  /\ pc["conn"] = "start"
  /\ ~faulted
  /\ vehicle_profile = VAG
  /\ sent = ExpectedInit(VAG, TRUE)
  /\ protocol_detected = OK

ProtocolSelects == {CMD_AUTO_PROTOCOL, CMD_KWP2000, CMD_ISO9141,
                    CMD_CAN_11BIT_500K, CMD_KWP1281}

IsProtocolSelect(c) == c \in ProtocolSelects

\* C5: with a profile, the fallback is called exactly when the response to
\* the primary protocol-select command does not contain "OK", only then and
\* only once; whatever the fallback answers, ATDP follows; never more than
\* two protocol-select commands are written.
C5_FallbackOnceIffNotOk ==
  /\ [](Len(SelectSeq(sent, IsProtocolSelect)) <= 2)
  /\ [][ /\ (pc["conn"] = "PROTO" /\ pc'["conn"] # "PROTO") =>
              /\ vehicle_profile # None
              /\ (pc'["conn"] = "FALLBACK") <=> ~Contains(sc["conn"].result, OK)
              /\ pc'["conn"] \in {"FALLBACK", "ATDP"}
         /\ (pc["conn"] = "FALLBACK" /\ pc'["conn"] # "FALLBACK") =>
              pc'["conn"] = "ATDP"
         /\ (pc["conn"] = "FALLBACK" /\ Ret("conn")) => pc'["conn"] # "FALLBACK"
         /\ (pc'["conn"] = "FALLBACK" /\ pc["conn"] # "FALLBACK") =>
              pc["conn"] = "PROTO"
         /\ (pc'["conn"] = "PROTO" /\ pc["conn"] # "PROTO") =>
              pc["conn"] = "ATL0"
       ]_vars

C5_Witness ==
  /\ pc["conn"] = "FALLBACK"
  /\ Ret("conn")
  /\ vehicle_profile = Toyota
  /\ Len(sent) = 6
  /\ sent[6] = CMD_CAN_11BIT_500K
  /\ sc["conn"].cmd = CMD_AUTO_PROTOCOL
  /\ sc["conn"].cause = "prompt"
  /\ ~Contains(sc["conn"].result, OK)

\* the connected(True, log) signal connect_obd has just emitted
EmittedLog == sigq[Len(sigq)].msg
JustEmitted ==
  pc["conn"] = "start" /\ sigq # <<>> /\ sigq[Len(sigq)].ok

C7_TransportFaultFailsInit ==
  (faulted /\ connRet # None) =>
     /\ connRet = "False"
     /\ pc["conn"] = "start" => ~is_connected
     /\ sigq # <<>> => ~sigq[Len(sigq)].ok

\* C8: once the TCP connect has succeeded no reply of the adapter aborts
\* the initialization: connect_obd never enters its except branch, marks
\* the link connected and returns True, and, with no transport fault, has
\* written the whole command sequence.
C8_RepliesNeverAbortInit ==
  /\ [](/\ pc["conn"] = "emit" => is_connected
        /\ pc["conn"] = "start" =>
             /\ connRet = "True"
             /\ ~faulted => \E fb \in BOOLEAN :
                               sent = ExpectedInit(vehicle_profile, fb))
  /\ [][ (pc["conn"] \in InitSteps \cup {"mark", "emit"}) =>
            pc'["conn"] \in InitSteps \cup {"mark", "emit", "start"} ]_vars

C8_Witness ==
  /\ pc["conn"] = "start"
  /\ connRet = "True"
  /\ is_connected
  /\ ~faulted
  /\ vehicle_profile = Fiat
  /\ Len(sent) = 8
  /\ responses[1][2] = <<"E","R","R","O","R">>
  /\ responses[2][2] = <<>>
  /\ sent[7] = CMD_ISO9141
  /\ protocol_detected = <<"E","R","R","O","R">>

\* C9: the polling thread exists only after a connect_obd has returned
\* True, it is started only by a connect thread whose connect_obd has
\* recorded the ATDP response and returned True, and so the first request
\* 010D follows a successful initialization.
C9_PollingAfterInit ==
  /\ []((pc["poll"] # "idle" \/ sc["poll"].st # "none") => initOK)
  /\ [][ (pc["poll"] = "idle" /\ pc'["poll"] # "idle") =>
            /\ pc["conn"] = "start"
            /\ connRet = "True"
            /\ protocol_detected # NoProtocol ]_vars

C9_Witness ==
  /\ initOK
  /\ sc["poll"].st = "recv"
  /\ sc["poll"].cmd = PID_SPEED
  /\ connRet = "True"

\* C10: a request of the polling loop, read_dtc or clear_dtc is written to
\* the socket only while the link is connected.
C10_RequestsOnlyWhenConnected ==
  [][ \A t \in {"poll", "dtc", "clr"} :
         (sc[t].st = "send" /\ sc'[t].st = "recv") => is_connected ]_vars

\* ------------------------------------------------------------ claims on run
\* the requests and the keys of a whole cycle under profile p, as the
\* polling loop is specified
CycleRequests(p) ==
  <<PID_SPEED, PID_RPM, PID_ENGINE_TEMP, PID_FUEL_LEVEL, PID_INTAKE_PRESSURE>>
  \o (IF p = None THEN <<>>
      ELSE [i \in 1..Len(VEHICLE_PROFILES[p].specific_pids) |->
              VEHICLE_PROFILES[p].specific_pids[i][2]])

\* the polling thread is inside a cycle: past line 430, before line 457 has
\* emitted
InCycle == pc["poll"] \in {"std", "prof", "lookup", "spec", "emit"}

\* the polling thread emits the snapshot (line 457)
EmitsSnapshot == pc["poll"] = "emit" /\ pc'["poll"] = "sleep"

\* the keys of data are pairwise different
DistinctKeys(d) ==
  \A i, j \in 1..Len(d) : d[i][1] = d[j][1] => i = j

\* the order of the requests of a cycle, the profile requests made only
\* under an active profile, and the snapshot emitted only after the last
\* request, with one entry per request
C11_CycleOrder ==
  /\ [](InCycle =>
          \E p \in ProfileChoices : IsPrefix(reqs, CycleRequests(p)))
  /\ [](pc["poll"] = "emit" =>
          /\ \E p \in ProfileChoices : reqs = CycleRequests(p)
          /\ Len(data) = Len(reqs)
          /\ DistinctKeys(data))
  /\ [][(pc["poll"] = "prof" /\ pc'["poll"] = "emit")
          => vehicle_profile = None]_vars
  /\ [][(pc["poll"] = "lookup" /\ pc'["poll"] = "spec")
          => IsPrefix(reqs', CycleRequests(vehicle_profile))]_vars
  /\ [][(pc["poll"] = "cycle" /\ pc'["poll"] # "cycle")
          => (reqs' = <<PID_SPEED>> /\ data' = <<>>)]_vars

C12_TransportFaultBacksOff ==
  [][(/\ pc["poll"] \in {"std", "spec"}
      /\ Ret("poll")
      /\ TransportFault(sc["poll"])
      /\ is_connected
      /\ sc'["poll"] # sc["poll"])
     => pc'["poll"] = "except"]_vars

\* connectivity was lost while the polling loop runs: is_connected is
\* false, or disconnect_obd has returned and a later session has set it
\* again
Lost ==
  /\ pc["poll"] \notin {"idle", "run"}
  /\ \/ ~is_connected
     \/ (~running /\ pc["ui"] = "idle")

\* C13: once connectivity is lost while the polling loop runs, the polling
\* thread writes no further request to any socket, the remaining requests
\* of the cycle in progress included.
C13_NoRequestAfterLoss ==
  [][~(Lost /\ sc["poll"].st = "send" /\ sc'["poll"].st = "recv")]_vars

\* the error texts of a socket that was closed, cleared or replaced under
\* the exchange
DeadSocketErrors ==
  {ErrorText(ExcBadFd), ErrorText(ExcNoSocket), ErrorText(ExcNotConn)}

\* C14: an exchange of the polling thread that is in flight when stop is
\* requested still completes on its socket: it is never ended by the
\* socket being closed or cleared under it.
C14_StopNeverCutsExchange ==
  [][(/\ sc["poll"].st = "recv"
      /\ sc'["poll"].st = "ret"
      /\ ~running)
     => sc'["poll"].result \notin DeadSocketErrors]_vars

\* C15: whatever a request's response decodes to, the step that takes the
\* response goes on with the cycle (never to the exception handler), adds
\* to data exactly parse_pid_response of that response under that request,
\* and leaves the other entries as they were; the snapshot emitted has one
\* entry per request of the whole cycle.
C15_UnavailableNeverAborts ==
  /\ [][(/\ pc["poll"] \in {"std", "spec"}
         /\ Ret("poll")
         /\ sc'["poll"] # sc["poll"])
        => /\ pc'["poll"] \in {"std", "prof", "spec", "emit"}
           /\ Len(data') = Len(data) + 1
           /\ SubSeq(data', 1, Len(data)) = data
           /\ data'[Len(data')][2] =
                parse_pid_response(sc["poll"].result, sc["poll"].cmd)]_vars
  /\ [](pc["poll"] = "emit" =>
          /\ \E p \in ProfileChoices : reqs = CycleRequests(p)
          /\ Len(data) = Len(reqs))

\* a snapshot about to be emitted that holds values and unavailable entries
C15_Witness ==
  /\ pc["poll"] = "emit"
  /\ Len(data) = 7
  /\ \E i, j \in 1..Len(data) : data[i][2].some /\ ~data[j][2].some

\* --------------------------------------------- claims on parse_pid_response
\* the call of parse_pid_response on its own has returned
Decoded == dec.st = "ret"

\* C16: for every identifier, the decoder returns None whenever the response
\* is empty or contains "NO DATA" or "ERROR" anywhere, whatever else the
\* response contains.
C16_NegativeMarkerIsNone ==
  (/\ Decoded
   /\ \/ dec.response = <<>>
      \/ Contains(dec.response, NO_DATA)
      \/ Contains(dec.response, ERROR))
  => dec.value = NoneValue

\* a marker in front of an answer that would decode to 60 without it
C16_Witness ==
  /\ Decoded
  /\ dec.response = ERROR \o Header(dec.pid) \o <<"3","C">>
  /\ dec.value = NoneValue

\* the number of data bytes the formula of pid consumes
BytesConsumed(pid) == IF pid = PID_RPM THEN 2 ELSE 1

\* response is mode 41, the identifier byte of pid and exactly the data
\* bytes its formula consumes, in hex, spaces apart or not
WellFormedFor(pid, response) ==
  LET r == RemoveSpaces(response)
  IN  /\ Len(r) = 4 + 2 * BytesConsumed(pid)
      /\ Lower(SubSeq(r, 1, 4)) = Lower(Header(pid))
      /\ AllHex(SubSeq(r, 5, Len(r)))

\* the byte written as the two hex digits that end at position i of r
ByteAt(r, i) == 16 * HexVal(r[i - 1]) + HexVal(r[i])
\* A, the last byte of the response, and the byte before it
LastByte(response) ==
  LET r == RemoveSpaces(response) IN ByteAt(r, Len(r))
HighByte(response) ==
  LET r == RemoveSpaces(response) IN ByteAt(r, Len(r) - 2)

\* the value v is the quotient n / d
IsQuotient(v, n, d) == v.some /\ v.num * d = n * v.den

\* v is what the formula table gives for pid on the trailing bytes
TableValue(pid, response, v) ==
  LET A == LastByte(response)
  IN  CASE pid \in {PID_SPEED, PID_INTAKE_PRESSURE, PID_FIAT_CLUTCH_STATUS}
             -> IsQuotient(v, A, 1)
        [] pid = PID_RPM
             -> IsQuotient(v, 256 * HighByte(response) + A, 4)
        [] pid \in {PID_ENGINE_TEMP, PID_VAG_OIL_TEMP}
             -> IsQuotient(v, A - 40, 1)
        [] pid \in {PID_FUEL_LEVEL, PID_TOYOTA_HYBRID_BATTERY}
             -> IsQuotient(v, A * 100, 255)
        [] pid \in {PID_FIAT_TURBO_PRESSURE, PID_VAG_BOOST_PRESSURE}
             -> IsQuotient(v, 2 * A, 1)
        [] pid = PID_TOYOTA_FUEL_CONSUMPTION
             -> IsQuotient(v, A, 10)
        [] OTHER -> FALSE

\* a well-formed answer has been decoded whose data bytes are bs
DecodedBytes(pid, bs) ==
  /\ Decoded
  /\ dec.pid = pid
  /\ WellFormedFor(pid, dec.response)
  /\ Lower(RemoveSpaces(dec.response)) = Lower(Header(pid) \o bs)

\* the table and the examples other than the engine speed one
C17_TableAndExamples ==
  /\ (Decoded /\ WellFormedFor(dec.pid, dec.response))
       => TableValue(dec.pid, dec.response, dec.value)
  /\ DecodedBytes(PID_SPEED, <<"3","C">>) => IsQuotient(dec.value, 60, 1)
  /\ DecodedBytes(PID_ENGINE_TEMP, <<"7","B">>)
       => IsQuotient(dec.value, 83, 1)
  /\ DecodedBytes(PID_ENGINE_TEMP, <<"0","0">>)
       => IsQuotient(dec.value, 0 - 40, 1)

\* C17 as stated: every well-formed answer decodes to the table formula on
\* its trailing bytes, "41 0D 3C" gives 60, the bytes 1A F8 give 1718, the
\* byte 7B gives 83 and the byte 00 gives -40.
C17_DecodesPerTableWith1718 ==
  /\ C17_TableAndExamples
  /\ DecodedBytes(PID_RPM, <<"1","A","F","8">>)
       => IsQuotient(dec.value, 1718, 1)

\* C17 amended: every well-formed answer decodes to the table formula on
\* its trailing bytes, "41 0D 3C" gives 60, the bytes 1A F8 give
\* (256 * 26 + 248) / 4 = 1726, the byte 7B gives 83 and the byte 00 gives
\* -40.
C17_DecodesPerTable ==
  /\ C17_TableAndExamples
  /\ DecodedBytes(PID_RPM, <<"1","A","F","8">>)
       => IsQuotient(dec.value, 1726, 1)

C17_Witness ==
  /\ DecodedBytes(PID_RPM, <<"1","A","F","8">>)
  /\ dec.value = Value(6904, 4)

\* x is what the inverse of the table formula of pid gives on v
InverseGives(pid, v, x) ==
  CASE pid \in {PID_SPEED, PID_INTAKE_PRESSURE, PID_FIAT_CLUTCH_STATUS}
         -> v.num = x * v.den
    [] pid \in {PID_ENGINE_TEMP, PID_VAG_OIL_TEMP}
         -> v.num + 40 * v.den = x * v.den
    [] pid \in {PID_FUEL_LEVEL, PID_TOYOTA_HYBRID_BATTERY}
         -> v.num * 255 = x * 100 * v.den
    [] pid \in {PID_FIAT_TURBO_PRESSURE, PID_VAG_BOOST_PRESSURE}
         -> v.num = 2 * x * v.den
    [] pid = PID_TOYOTA_FUEL_CONSUMPTION
         -> v.num * 10 = x * v.den
    [] OTHER -> FALSE

\* two returned numbers are the same number
SameValue(v, w) == v.some /\ w.some /\ v.num * w.den = w.num * v.den

\* what every raw byte decodes to under every single-byte identifier
DecodedByte ==
  [pid \in AllPids \ {PID_RPM} |->
     [y \in Bytes |-> parse_pid_response(Header(pid) \o Hex2(y), pid)]]

\* C18: for every single-byte identifier and every raw byte x, the value
\* decoded from a well-formed answer whose data byte is x gives back x under
\* the inverse of the table formula, and no other raw byte decodes to the
\* same value.
C18_SingleByteRoundTrip ==
  (/\ Decoded
   /\ dec.pid # PID_RPM
   /\ WellFormedFor(dec.pid, dec.response))
  => LET x == LastByte(dec.response)
     IN  /\ dec.value.some
         /\ InverseGives(dec.pid, dec.value, x)
         /\ \A y \in Bytes \ {x} :
              ~SameValue(DecodedByte[dec.pid][y], dec.value)

C18_Witness ==
  /\ DecodedBytes(PID_FUEL_LEVEL, <<"F","E">>)
  /\ dec.value = Value(25400, 255)

\* C19: a response whose text without spaces does not contain the last two
\* characters of the requested identifier, compared without regard to case,
\* decodes to None for every identifier; a value is returned only for a
\* response that contains them.
C19_ValueOnlyIfAnswersPid ==
  Decoded =>
    (dec.value.some
       => Contains(Lower(RemoveSpaces(dec.response)),
                   Lower(SubSeq(dec.pid, 3, 4))))

\* the answer to another identifier, with a data byte
C19_Witness ==
  /\ Decoded
  /\ dec.response = OtherHeader \o <<" ">> \o <<"3","C">>
  /\ dec.value = NoneValue

\* the response has the wrong length for pid (too short, or an odd number
\* of characters) or its payload is not hexadecimal
Malformed(pid, response) ==
  LET r == RemoveSpaces(response)
  IN  \/ Len(r) < 4 + 2 * BytesConsumed(pid)
      \/ Len(r) % 2 = 1
      \/ ~AllHex(SubSeq(r, 5, Len(r)))

\* C20: for every identifier, a response of the wrong length for that
\* identifier or with a payload that is not hexadecimal decodes to None.
C20_MalformedIsNone ==
  (Decoded /\ Malformed(dec.pid, dec.response)) => dec.value = NoneValue

\* ------------------------------------------------------- claims on read_dtc
\* read_dtc has built its list from the response of the framer
CodesRead == pc["dtc"] = "done" /\ sc["dtc"].st = "ret"

\* the response without whitespace and its complete groups of 4 characters
IsInk(c) == c \notin {" ", "\t", "\n", "\r", "\f"}
GroupsOf(response) ==
  LET hex == SelectSeq(response, IsInk)
  IN  [k \in 1..(Len(hex) \div 4) |-> SubSeq(hex, 4 * k - 3, 4 * k)]

\* the category letter of a group: 0 -> P, 1 -> C, 2 -> B, 3 -> U
CategoryOf ==
  [d \in {"0", "1", "2", "3"} |->
     CASE d = "0" -> "P" [] d = "1" -> "C" [] d = "2" -> "B" [] d = "3" -> "U"]
IsCodeGroup(g) == g # <<"0","0","0","0">> /\ g[1] \in DOMAIN CategoryOf
CodeOf(g) == <<CategoryOf[g[1]]>> \o g

O2SlowResponse == "O2 Sensor Circuit Slow Response (Bank 1 Sensor 1)"

\* C21: every code read_dtc surfaces has 5 characters, a category letter
\* of P, C, B, U followed by the digits of its 4-character group; the group
\* 0133 surfaces as P0133.
C21_CodeIsLetterAndGroup ==
  CodesRead =>
    /\ \A i \in 1..Len(dtc_codes) :
          LET code == dtc_codes[i][1]
          IN  /\ Len(code) = 5
              /\ code[1] \in {"P", "C", "B", "U"}
              /\ \E k \in 1..Len(GroupsOf(sc["dtc"].result)) :
                    /\ IsCodeGroup(GroupsOf(sc["dtc"].result)[k])
                    /\ code = CodeOf(GroupsOf(sc["dtc"].result)[k])
    /\ sc["dtc"].result = <<"0","1","3","3">> =>
          /\ Len(dtc_codes) = 1
          /\ dtc_codes[1][1] = <<"P","0","1","3","3">>

\* C22: the list read_dtc returns has exactly one entry, in order, for each
\* complete 4-character group of the response without whitespace that is
\* not 0000 and whose first digit is one of 0, 1, 2, 3; the all-zero group,
\* a group with another first digit and a remainder of fewer than 4
\* characters give no entry.
C22_OneEntryPerCodeGroup ==
  CodesRead =>
    LET surfaced == SelectSeq(GroupsOf(sc["dtc"].result), IsCodeGroup)
    IN  /\ Len(dtc_codes) = Len(surfaced)
        /\ \A i \in 1..Len(dtc_codes) :
              SubSeq(dtc_codes[i][1], Len(dtc_codes[i][1]) - 2,
                     Len(dtc_codes[i][1])) = SubSeq(surfaced[i], 2, 4)

\* C23: every code is paired with its description in DTC_CODES when it is
\* in the table and with "Unknown code" only when it is not; the group 0133
\* is reported with "O2 Sensor Circuit Slow Response (Bank 1 Sensor 1)".
C23_DescriptionFromTable ==
  CodesRead =>
    /\ \A i \in 1..Len(dtc_codes) :
          /\ \A e \in DTC_CODES :
                e[1] = dtc_codes[i][1] => dtc_codes[i][2] = e[2]
          /\ dtc_codes[i][2] = "Unknown code" =>
                \A e \in DTC_CODES : e[1] # dtc_codes[i][1]
    /\ sc["dtc"].result = <<"0","1","3","3">> =>
          /\ Len(dtc_codes) = 1
          /\ dtc_codes[1][2] = O2SlowResponse

\* C27: when the read-codes exchange fails at the transport level (the
\* framer returns an "Error: ..." text) or the socket is gone ("Not
\* connected"), read_dtc reports the empty list.
C27_TransportErrorGivesNoCodes ==
  (CodesRead /\ sc["dtc"].cause \in
                  {"noSocket", "sendError", "timeout", "recvError"})
     => dtc_codes = <<>>

\* ------------------------------------------------------ claims on clear_dtc
\* C24: clear_dtc passes the single command 04 to the framer exactly once
\* when the link is connected and returns true exactly when the response
\* contains "OK"; when the link is not connected it sends nothing and
\* returns false; no step of it changes is_connected, running or socket.
C24_ClearSendsOnceAndReportsOk ==
  /\ [](pc["clr"] = "done" =>
          (IF sc["clr"].st = "ret"
           THEN /\ sc["clr"].cmd = <<"0","4">>
                /\ clrRet \in {"True", "False"}
                /\ clrRet = "True" <=>
                     \E i \in 1..(Len(sc["clr"].result) - 1) :
                        /\ sc["clr"].result[i] = "O"
                        /\ sc["clr"].result[i + 1] = "K"
           ELSE /\ sc["clr"].st = "none"
                /\ clrRet = "False"))
  /\ [][ /\ (pc["clr"] = "check" /\ pc'["clr"] # "check") =>
              (IF is_connected /\ socket # NoSocket
               THEN pc'["clr"] = "call" /\ sc'["clr"].st = "none"
               ELSE pc'["clr"] = "done" /\ sc'["clr"].st = "none")
         /\ (sc["clr"].st = "none" /\ sc'["clr"].st # "none") =>
              /\ pc["clr"] = "call"
              /\ pc'["clr"] = "wait"
              /\ sc'["clr"].cmd = <<"0","4">>
         /\ (pc["clr"] = "wait" /\ pc'["clr"] # "wait") =>
              /\ pc'["clr"] = "done"
              /\ sc'["clr"] = sc["clr"]
              /\ sc["clr"].st = "ret"
         /\ (pc'["clr"] # pc["clr"] \/ sc'["clr"] # sc["clr"]) =>
              UNCHANGED <<is_connected, running, socket>> ]_vars

C24_Witness ==
  /\ pc["clr"] = "done"
  /\ clrRet = "True"
  /\ sc["clr"].cause = "prompt"
  /\ sc["clr"].result = <<"O","K">>
  /\ is_connected

\* -------------------------------------------- claims on the framer's result
\* the exchange of the connect thread returned what it read
Framed == sc["conn"].st = "ret"
          /\ sc["conn"].cause \in {"prompt", "eof", "deadline"}

\* the normalization as the specification words it, a step at a time
Replaced(bytes) ==
  [i \in 1..Len(bytes) |->
     IF bytes[i] = "\\xff" THEN "U+FFFD" ELSE bytes[i]]
IsKept(c) == c \notin {"\r", ">"}
RECURSIVE Collapsed(_)
Collapsed(s) ==
  IF s = <<>> THEN <<>>
  ELSE IF Head(s) # "\n" THEN <<Head(s)>> \o Collapsed(Tail(s))
  ELSE IF Len(s) > 1 /\ s[2] = "\n" THEN Collapsed(Tail(s))
  ELSE <<" ">> \o Collapsed(Tail(s))
IsBlank(c) == c \in {" ", "\t", "\n", "\r", "\f"}
RECURSIVE Trimmed(_)
Trimmed(s) ==
  IF s = <<>> THEN s
  ELSE IF IsBlank(Head(s)) THEN Trimmed(Tail(s))
  ELSE IF IsBlank(s[Len(s)]) THEN Trimmed(SubSeq(s, 1, Len(s) - 1))
  ELSE s
WithoutEcho(text, command) ==
  IF Len(text) >= Len(command) /\ SubSeq(text, 1, Len(command)) = command
  THEN Trimmed(SubSeq(text, Len(command) + 1, Len(text)))
  ELSE text
Framing(bytes, command) ==
  WithoutEcho(Trimmed(Collapsed(SelectSeq(Replaced(bytes), IsKept))),
              command)

\* C25: the result of the framer is the raw buffer decoded with invalid
\* bytes replaced, every carriage return and every prompt character
\* removed, every run of embedded line breaks turned into a single space,
\* leading and trailing whitespace removed, and then the echo of the sent
\* command removed and the rest trimmed; a text that does not begin with
\* the command is returned unchanged.
C25_FramerNormalizes ==
  Framed => sc["conn"].result = Framing(sc["conn"].buf, sc["conn"].cmd)

\* ------------------------------------------------ claims on profile entries
\* the five standard keys, and the keys of each profile as the claim
\* derives them: lower case, spaces turned into underscores
FiveKeys ==
  <<<<"s","p","e","e","d">>, <<"r","p","m">>,
    <<"e","n","g","i","n","e","_","t","e","m","p">>,
    <<"f","u","e","l","_","l","e","v","e","l">>,
    <<"i","n","t","a","k","e","_","p","r","e","s","s","u","r","e">>>>
ProfileKeys(p) ==
  CASE p = Fiat ->
         <<<<"t","u","r","b","o","_","p","r","e","s","s","u","r","e">>,
           <<"c","l","u","t","c","h","_","s","t","a","t","u","s">>>>
    [] p = Toyota ->
         <<<<"f","u","e","l","_","c","o","n","s","u","m","p","t","i","o","n">>,
           <<"h","y","b","r","i","d","_","b","a","t","t","e","r","y">>>>
    [] p = VAG ->
         <<<<"b","o","o","s","t","_","p","r","e","s","s","u","r","e">>,
           <<"o","i","l","_","t","e","m","p","e","r","a","t","u","r","e">>>>
    [] OTHER -> <<>>
Range(f) == {f[i] : i \in DOMAIN f}

\* C26: the keys of a profile's PIDs are pairwise distinct and none is a
\* standard key; every snapshot of a cycle under the profile holds the five
\* standard entries and one entry per profile PID, and storing a profile
\* value leaves the standard entries as they were.
C26_ProfileKeysAddEntries ==
  /\ [](/\ \A p \in ProfileChoices \ {None} :
             LET names == VEHICLE_PROFILES[p].specific_pids
             IN  /\ [i \in 1..Len(names) |-> DataKey(names[i][1])]
                      = ProfileKeys(p)
                 /\ \A i, j \in 1..Len(names) :
                       DataKey(names[i][1]) = DataKey(names[j][1]) => i = j
                 /\ \A i \in 1..Len(names) :
                       DataKey(names[i][1]) \notin Range(FiveKeys)
        /\ pc["poll"] = "emit" =>
             /\ Len(data) = 5 + Len(ProfileKeys(vehicle_profile))
             /\ [i \in 1..Len(data) |-> data[i][1]]
                  = FiveKeys \o ProfileKeys(vehicle_profile))
  /\ [][(pc["poll"] = "spec" /\ Ret("poll") /\ sc'["poll"] # sc["poll"])
        => /\ Len(data) >= 5
           /\ SubSeq(data', 1, 5) = SubSeq(data, 1, 5)]_vars

\* a snapshot under the Fiat profile: seven entries, the speed among them
\* with the value decoded from its own request
C26_Witness ==
  /\ pc["poll"] = "emit"
  /\ vehicle_profile = Fiat
  /\ Len(data) = 7
  /\ data[1] = <<<<"s","p","e","e","d">>, [some |-> TRUE, num |-> 248, den |-> 1]>>
  /\ data[6][1] = <<"t","u","r","b","o","_","p","r","e","s","s","u","r","e">>
  /\ data[6][2].some

\* ------------------------------------------- claims on answers in flight
\* C28: the string send_command(c) returns is built only from bytes the
\* adapter sent in reply to c: no answer is taken by the call of another
\* command, neither a late one after a timeout nor one that arrives in the
\* same read behind the prompt of another.
C28_AnswerGoesToItsRequest ==
  \A i \in 1..Len(wire) : wire[i].taker \in {<<>>, wire[i].cmd}

\* ------------------------------------- claims on send_command's exceptions
IsErrorText(s) ==
  Len(s) > 7 /\ SubSeq(s, 1, 7) = <<"E","r","r","o","r",":"," ">>

\* C29: in every interleaving with disconnect_obd and under every socket
\* fault, a call of send_command ends by returning a string to its caller,
\* so the exception handler of the polling loop is never entered from an
\* exchange.
C29_SendCommandNeverRaises ==
  /\ [](\A t \in Threads :
          /\ sc[t].st \in {"none", "send", "recv", "ret"}
          /\ sc[t].st = "ret" =>
               \/ sc[t].cause = "noSocket"
                  /\ sc[t].result =
                       <<"N","o","t"," ","c","o","n","n","e","c","t","e","d">>
               \/ sc[t].cause \in {"sendError", "timeout", "recvError"}
                  /\ IsErrorText(sc[t].result)
               \/ sc[t].cause \in {"prompt", "eof", "deadline"}
                  /\ ~IsErrorText(sc[t].result))
  /\ [][ /\ \A t \in Threads :
              (sc[t].st \in {"send", "recv"} /\ sc'[t] # sc[t]) =>
                 sc'[t].st \in {"recv", "ret"}
         /\ (pc["poll"] # "except" /\ pc'["poll"] = "except") =>
              /\ pc["poll"] = "lookup"
              /\ sc["poll"].st \notin {"send", "recv"} ]_vars

\* the socket was cleared between the test of line 237 and the send of
\* line 243, and the polling thread got the error text back
C29_Witness ==
  /\ pc["poll"] \in {"std", "spec"}
  /\ sc["poll"].st = "ret"
  /\ sc["poll"].cause = "sendError"
  /\ sc["poll"].result = <<"E","r","r","o","r",":"," ">> \o ExcNoSocket
  /\ socket = NoSocket

\* ------------------------------------------ claims on snapshots and the link
\* disconnect_obd has returned and no later connect_obd has succeeded
Disconnected == ~is_connected /\ pc["ui"] = "idle"

\* C30: once disconnect_obd has returned (is_connected false, socket
\* None), the polling thread emits no snapshot until a new connect
\* succeeds.
C30_NoSnapshotWhileDisconnected ==
  [][EmitsSnapshot => ~Disconnected]_vars

\* ------------------------------------------------- claims on stop and resume
\* disconnect_obd was called while the loop was running: the loop is past
\* line 426 and running is false
StopRequested == ~running /\ pc["poll"] \notin {"idle", "run"}

\* run has returned
PollReturned == pc["poll"] = "idle" /\ ~running

\* C31: when disconnect_obd is called while the loop is running, then
\* under fair scheduling of the polling thread run() eventually returns
\* with running false, and no cycle begins after the call: at most the
\* cycle in progress is completed.
C31_LoopEndsAfterStop ==
  /\ StopRequested ~> PollReturned
  /\ [][StopRequested => ~(pc["poll"] = "while" /\ pc'["poll"] = "cycle")]_vars

\* stop requested in the middle of an exchange of a cycle
C31_Witness ==
  /\ StopRequested
  /\ pc["poll"] = "std"
  /\ sc["poll"].st = "recv"
  /\ pc["ui"] = "close"

\* the second connect_obd of the sequence connect, disconnect, connect has
\* returned True
Reconnected ==
  /\ pc["conn"] = "start"
  /\ connRet = "True"
  /\ Len(socks) = 2
  /\ socket = 2

\* C32: after connect, disconnect, connect with the second connect_obd
\* successful, the polling loop eventually emits a snapshot on the new
\* session, unless a further disconnect is requested.
C32_PollingResumes ==
  Reconnected ~>
    \/ pc["poll"] = "sleep" /\ socket = 2
    \/ pc["ui"] # "idle"

====
